---- MODULE Spec2Model ----
(***************************************************************************)
(* GrooveLab drum practice game: the clock and note lifecycle engine       *)
(* (GameState), the timing judge, the score manager and the input          *)
(* debouncer, with the parts of DrumGameEngine that wire them together.    *)
(*                                                                         *)
(* Time is in milliseconds.  performance.now() is the variable now; every  *)
(* read of it inside one handler sees the same value.  Optional values     *)
(* (null / undefined in the source) are sequences of length 0 or 1.        *)
(***************************************************************************)
EXTENDS Integers, Sequences, FiniteSets, TLC

(* ---------------- program constants (js/constants.js) ---------------- *)
PERFECT_WINDOW == 50
GOOD_WINDOW == 100
OK_WINDOW == 150
MISS_WINDOW == 200
LOOKAHEAD_TIME == 3000
COUNTDOWN_BEATS == 4
DOUBLE_HIT_MS == 50
SEQUENCE_OFFSET == 50
DEFAULT_DEBOUNCE_MS == 30

SCORE_PERFECT == 100
SCORE_GOOD == 70
SCORE_OK == 40
SCORE_EARLY == -10
SCORE_LATE == -10
SCORE_MISS == 0
SCORE_WRONG_NOTE == -20
COMBO_MULTIPLIER_TENTHS == 1

KICK == 36
SNARE == 38
Channels == {KICK, SNARE}

(* ---------------- the pattern handed to the engine ---------------- *)
\* pattern.bpm; one beat is 60000 / bpm ms
PatternBpm == 120
BeatDuration == 60000 \div PatternBpm
\* createPattern: duration of one bar (4 beats)
BarDuration == BeatDuration * 4

\* pattern.notes of the session's pattern: <<time, midiNote>>, in schedule order
PatternNotes == << <<0, KICK>>, <<150, SNARE>>, <<1200, KICK>> >>
\* bars of the session's pattern
PatternBars == 1
\* a two-bar pattern on the same pads whose last note lies a lookahead window
\* after the first
LongPatternNotes == << <<0, KICK>>, <<150, SNARE>>, <<3000, KICK>> >>
LongPatternBars == 2
\* notes of the pattern createPattern returns for an appended loop
AddedNotes == << <<0, KICK>> >>
\* additionalLoops in appendMoreNotesToInfiniteLoop
ADDITIONAL_LOOPS == 4
AddedDuration == BarDuration * ADDITIONAL_LOOPS

(* ---------------- bounds of the model ---------------- *)
\* the wall clock stops advancing here
MaxNow == 3500
\* the wall clock advances in steps of a beat, or by a stall that is longer
\* than the lookahead window
TimeStep == BeatDuration
StallStep == LOOKAHEAD_TIME + BeatDuration
\* steps of the wall clock between two reads of it by the game loop
MaxLag == 1
\* strikes per run
MaxStrikes == 2
\* loops appended per run
MaxLoops == 2
\* reset() calls per run
MaxResets == 1
\* pause() calls per run
MaxPauses == 1

NPattern == Len(PatternNotes)
NAdded == Len(AddedNotes)
\* note objects: 1..NPattern are pattern.notes, the rest are appended loop notes
NoteIds == 1..(NPattern + MaxLoops * NAdded)

Null == <<>>
Some(x) == <<x>>
Val(o) == o[1]
\* a possibly-null number used in arithmetic: null counts as 0
Num(o) == IF o = <<>> THEN 0 ELSE o[1]

Abs(x) == IF x < 0 THEN -x ELSE x
Max(a, b) == IF a >= b THEN a ELSE b

\* Math.ceil(a / b) for b > 0
CeilDiv(a, b) == -((-a) \div b)

\* midiNote of a note object
MidiNote(id) ==
  IF id <= NPattern THEN PatternNotes[id][2]
  ELSE AddedNotes[((id - NPattern - 1) % NAdded) + 1][2]

(* ---------------- state ---------------- *)
VARIABLES
  gs,        \* the GameState object's fields
  notes,     \* the session's note objects: id -> mutable fields
  pattern,   \* the pattern object: its own note objects, duration, loop count
  raf,       \* requestAnimationFrame: scheduled callbacks, in registration order
  judge,     \* TimingJudge.lastHitTime
  score,     \* the ScoreManager object's fields
  engine,    \* DrumGameEngine: infinite loop flag and iteration
  now,       \* performance.now()
  events,    \* notifications emitted by the last operation
  ghost,     \* history of the run: counters that bound it, the last operation
  deb,       \* the InputDebouncer object's fields
  debClock,  \* the timestamp the next input carries
  debLog,    \* the inputs the debouncer has seen since its last reset()
  jcall,     \* the last call made on a TimingJudge exercised on its own
  slog,      \* the calls made on a ScoreManager exercised on its own
  avg,       \* a cross-loop averaging exercised on its own: judged notes, result
  grade      \* the last answer of getGrade() on a ScoreManager exercised on its own

gameVars == <<gs, notes, pattern, raf, score, engine, now, events, ghost>>
debVars == <<deb, debClock, debLog>>
vars == <<gs, notes, pattern, raf, judge, score, engine, now, events, ghost,
          deb, debClock, debLog, jcall, slog, avg, grade>>

Judgments == {"PERFECT", "GOOD", "OK", "EARLY", "LATE", "MISS", "WRONG_NOTE"}

\* a note object as createPattern makes it
FreshNote(t) ==
  [time |-> t, judged |-> FALSE, hit |-> FALSE, accuracy |-> Null, judgment |-> Null]

\* the whole program state as one value, so that handlers compose
World ==
  [gs |-> gs, notes |-> notes, pattern |-> pattern, raf |-> raf, judge |-> judge,
   score |-> score, engine |-> engine, events |-> events, ghost |-> ghost]

\* the next state is the world w
Commit(w) ==
  /\ gs' = w.gs
  /\ notes' = w.notes
  /\ pattern' = w.pattern
  /\ raf' = w.raf
  /\ judge' = w.judge
  /\ score' = w.score
  /\ engine' = w.engine
  /\ events' = w.events
  /\ ghost' = w.ghost
  /\ UNCHANGED <<debVars, jcall, slog, avg, grade>>

\* a write to the fields of the session's note object id; while the session's
\* note objects are the pattern's own objects the pattern sees the write too
WriteNote(w, id, rec) ==
  [w EXCEPT !.notes[id] = rec,
            !.pattern.notes = IF w.pattern.shared /\ id <= NPattern
                              THEN [@ EXCEPT ![id] = rec] ELSE @]

Emit(w, name, arg) == [w EXCEPT !.events = Append(@, <<name, arg>>)]

(* ---------------- TimingJudge ---------------- *)
\* this.scores[judgment]
TimingScore(j) ==
  CASE j = "PERFECT" -> SCORE_PERFECT
    [] j = "GOOD" -> SCORE_GOOD
    [] j = "OK" -> SCORE_OK
    [] j = "EARLY" -> SCORE_EARLY
    [] j = "LATE" -> SCORE_LATE
    [] j = "MISS" -> SCORE_MISS
    [] OTHER -> SCORE_WRONG_NOTE

\* a judgment object; the wrong-note object has no isEarly / isLate fields in
\* the source, which read as false
Judgment(j, sc, td, correct, early, late) ==
  [judgment |-> j, score |-> sc, timeDiff |-> td, isCorrect |-> correct,
   isEarly |-> early, isLate |-> late]

\* TimingTier with the windows' upper ends left out
TimingTierStrict(timeDiff) ==
  LET absTimeDiff == Abs(timeDiff) IN
  IF absTimeDiff < PERFECT_WINDOW THEN "PERFECT"
  ELSE IF absTimeDiff < GOOD_WINDOW THEN "GOOD"
  ELSE IF absTimeDiff < OK_WINDOW THEN "OK"
  ELSE IF absTimeDiff < MISS_WINDOW THEN (IF timeDiff < 0 THEN "EARLY" ELSE "LATE")
  ELSE "MISS"

\* TimingTier with the OK window reaching the miss boundary: no Early / Late band
TimingTierNoBand(timeDiff) ==
  LET absTimeDiff == Abs(timeDiff) IN
  IF absTimeDiff <= PERFECT_WINDOW THEN "PERFECT"
  ELSE IF absTimeDiff <= GOOD_WINDOW THEN "GOOD"
  ELSE IF absTimeDiff <= MISS_WINDOW THEN "OK"
  ELSE "MISS"

\* the timing tier of a correct-note hit
TimingTier(timeDiff) ==
  LET absTimeDiff == Abs(timeDiff) IN
  IF absTimeDiff <= PERFECT_WINDOW THEN "PERFECT"
  ELSE IF absTimeDiff <= GOOD_WINDOW THEN "GOOD"
  ELSE IF absTimeDiff <= OK_WINDOW THEN "OK"
  ELSE IF absTimeDiff <= MISS_WINDOW THEN (IF timeDiff < 0 THEN "EARLY" ELSE "LATE")
  ELSE "MISS"

JudgeHit(noteTime, hitTime, isCorrectNote) ==
  LET timeDiff == hitTime - noteTime IN
  IF ~isCorrectNote
  THEN Judgment("WRONG_NOTE", SCORE_WRONG_NOTE, Some(timeDiff), FALSE, FALSE, FALSE)
  ELSE LET j == TimingTier(timeDiff) IN
       Judgment(j, TimingScore(j), Some(timeDiff), TRUE, timeDiff < 0, timeDiff > 0)

\* the double-hit guard: lastHitTime[midiNote] is set, is not 0 (a stored 0 is
\* falsy in the source's test) and lies less than 50 ms back
DoubleHit(lastHitTime, midiNote, hitTime) ==
  /\ lastHitTime[midiNote] # Null
  /\ Val(lastHitTime[midiNote]) # 0
  /\ hitTime - Val(lastHitTime[midiNote]) < DOUBLE_HIT_MS

\* CloserMatch letting an equally close later note replace the best match
CloserOrEqualMatch(timeDiff, bestTimeDiff) ==
  timeDiff <= MISS_WINDOW /\ timeDiff <= bestTimeDiff

\* whether the scan takes the note over the best match so far
CloserMatch(timeDiff, bestTimeDiff) ==
  timeDiff <= MISS_WINDOW /\ timeDiff < bestTimeDiff

\* bestTimeDiff = Infinity before the scan: any value above every offset
Infinity == 1000000000

\* the scan of activeNotes from position i on, with the best match so far
RECURSIVE ScanNotes(_, _, _, _, _, _, _)
ScanNotes(ns, active, midiNote, hitTime, i, bestMatch, bestTimeDiff) ==
  IF i > Len(active) THEN bestMatch
  ELSE LET id == active[i]
           timeDiff == Abs(hitTime - ns[id].time)
       IN IF MidiNote(id) = midiNote /\ ~ns[id].judged /\ CloserMatch(timeDiff, bestTimeDiff)
          THEN ScanNotes(ns, active, midiNote, hitTime, i + 1, Some(id), timeDiff)
          ELSE ScanNotes(ns, active, midiNote, hitTime, i + 1, bestMatch, bestTimeDiff)

\* findMatchingNote: the matched note (or Null) and the double-hit memory after
FindMatchingNote(lastHitTime, ns, midiNote, hitTime, active) ==
  IF DoubleHit(lastHitTime, midiNote, hitTime)
  THEN [note |-> Null, lastHitTime |-> lastHitTime]
  ELSE LET bestMatch == ScanNotes(ns, active, midiNote, hitTime, 1, Null, Infinity) IN
       [note |-> bestMatch,
        lastHitTime |-> IF bestMatch # Null
                        THEN [lastHitTime EXCEPT ![midiNote] = Some(hitTime)]
                        ELSE lastHitTime]

\* TimingJudge.reset
JudgeReset == [c \in Channels |-> Null]

(* ---------------- ScoreManager ---------------- *)
ScoreInit ==
  [totalScore |-> 0, combo |-> 0, maxCombo |-> 0,
   judgmentCounts |-> [j \in Judgments |-> 0], totalNotes |-> 0, hitNotes |-> 0]

\* baseScore * (1 + combo * 0.1) is computed in IEEE-754 doubles.  For the
\* base scores of constants.js and combo below 50 the product is the exact
\* integer or a double above it, except for these operands, where it is the
\* double just below the integer (100 * 2.3 = 229.99999999999997)
FloorsBelow(baseScore, combo) ==
  baseScore = 100 /\ combo \in {13, 31, 36}

\* Math.max(0, Math.floor(baseScore * (1 + combo * COMBO_MULTIPLIER)))
FinalScore(baseScore, combo) ==
  LET product == (baseScore * (10 + combo * COMBO_MULTIPLIER_TENTHS)) \div 10 IN
  Max(0, IF FloorsBelow(baseScore, combo) THEN product - 1 ELSE product)

\* RecordJudgment with OK counted into the combo like PERFECT and GOOD
RecordJudgmentOkCounts(sc, judgment) ==
  LET j == judgment.judgment
      counted == [sc EXCEPT !.judgmentCounts[j] = @ + 1,
                            !.totalNotes = @ + 1,
                            !.totalScore = @ + FinalScore(judgment.score, sc.combo)]
  IN IF j = "PERFECT" \/ j = "GOOD" \/ j = "OK"
     THEN [counted EXCEPT !.combo = @ + 1,
                          !.maxCombo = Max(@, sc.combo + 1),
                          !.hitNotes = @ + 1]
     ELSE [counted EXCEPT !.combo = 0]

RecordJudgment(sc, judgment) ==
  LET j == judgment.judgment
      counted == [sc EXCEPT !.judgmentCounts[j] = @ + 1,
                            !.totalNotes = @ + 1,
                            !.totalScore = @ + FinalScore(judgment.score, sc.combo)]
  IN IF j = "PERFECT" \/ j = "GOOD"
     THEN [counted EXCEPT !.combo = @ + 1,
                          !.maxCombo = Max(@, sc.combo + 1),
                          !.hitNotes = @ + 1]
     ELSE IF j = "OK"
     THEN [counted EXCEPT !.combo = 0, !.hitNotes = @ + 1]
     ELSE [counted EXCEPT !.combo = 0]

\* recordMiss that breaks the combo without counting the miss
RecordMissUncounted(sc) == [sc EXCEPT !.combo = 0]

\* RecordMiss clearing the best combo with the combo
RecordMissClearsBest(sc) ==
  [sc EXCEPT !.judgmentCounts["MISS"] = @ + 1, !.totalNotes = @ + 1, !.combo = 0,
             !.maxCombo = 0]

RecordMiss(sc) ==
  [sc EXCEPT !.judgmentCounts["MISS"] = @ + 1, !.totalNotes = @ + 1, !.combo = 0]

\* ScoreManager.reset
ScoreReset(sc) == ScoreInit

\* GetAccuracy rounding down
GetAccuracyFloor(sc) ==
  IF sc.totalNotes = 0 THEN 100
  ELSE (100 * sc.hitNotes) \div sc.totalNotes

\* getAccuracy: Math.round((hitNotes / totalNotes) * 100), halves rounded up
\* (the double quotient rounds the same way for totalNotes below 40)
GetAccuracy(sc) ==
  IF sc.totalNotes = 0 THEN 100
  ELSE (200 * sc.hitNotes + sc.totalNotes) \div (2 * sc.totalNotes)

\* getGrade with the two middle grades exchanged
GradeOfSwapped(accuracy) ==
  IF accuracy >= 95 THEN "S"
  ELSE IF accuracy >= 90 THEN "A"
  ELSE IF accuracy >= 80 THEN "C"
  ELSE IF accuracy >= 70 THEN "B"
  ELSE IF accuracy >= 60 THEN "D"
  ELSE "F"

\* getGrade: the letter for an accuracy percentage
GradeOf(accuracy) ==
  IF accuracy >= 95 THEN "S"
  ELSE IF accuracy >= 90 THEN "A"
  ELSE IF accuracy >= 80 THEN "B"
  ELSE IF accuracy >= 70 THEN "C"
  ELSE IF accuracy >= 60 THEN "D"
  ELSE "F"

\* getGrade()
GetGrade(sc) == GradeOf(GetAccuracy(sc))

(* ---------------- requestAnimationFrame ---------------- *)
\* raf.queue: the handles of the scheduled callbacks, oldest first; the first
\* raf.frameLeft of them belong to the frame being run
InQueue(queue, id) == \E i \in 1..Len(queue) : queue[i] = id

\* a handle the browser has not handed out among those still known
FreshHandle(w) ==
  CHOOSE id \in 1..(Len(w.raf.queue) + 2) :
    /\ ~InQueue(w.raf.queue, id)
    /\ id # w.gs.animationFrameId
    /\ \A k \in 1..(id - 1) : InQueue(w.raf.queue, k) \/ k = w.gs.animationFrameId

\* this.animationFrameId = requestAnimationFrame(() => this.gameLoop())
RequestFrame(w) ==
  LET id == FreshHandle(w) IN
  [w EXCEPT !.raf.queue = Append(@, id), !.gs.animationFrameId = id]

\* cancelAnimationFrame(id): a handle that already ran, or never was, is ignored
CancelFrame(r, id) ==
  IF ~InQueue(r.queue, id) THEN r
  ELSE LET p == CHOOSE i \in 1..Len(r.queue) : r.queue[i] = id IN
       [queue |-> SubSeq(r.queue, 1, p - 1) \o SubSeq(r.queue, p + 1, Len(r.queue)),
        frameLeft |-> IF p <= r.frameLeft THEN r.frameLeft - 1 ELSE r.frameLeft]

(* ---------------- GameState ---------------- *)
GameStateInit(sequenceMode) ==
  [currentTime |-> 0, startTime |-> Null, isPlaying |-> FALSE, isPaused |-> FALSE,
   isCountingDown |-> FALSE, countdownValue |-> 0,
   upcomingNotes |-> [i \in 1..NPattern |-> i], activeNotes |-> <<>>,
   hitNotes |-> <<>>, missedNotes |-> <<>>, wrongPadHits |-> 0,
   animationFrameId |-> 0,
   sequenceMode |-> sequenceMode, sequenceWaitingForHit |-> FALSE,
   sequenceCurrentNoteIndex |-> 0, sequenceCorrectHits |-> 0,
   sequenceWrongHits |-> 0, sequencePausedTime |-> Null]

\* stop()
Stop(w) ==
  LET w1 == [w EXCEPT !.gs.isPlaying = FALSE, !.gs.isPaused = FALSE] IN
  IF w1.gs.animationFrameId # 0
  THEN [w1 EXCEPT !.raf = CancelFrame(@, w1.gs.animationFrameId),
                  !.gs.animationFrameId = 0]
  ELSE w1

\* WithinLookahead without the lookahead window
WithinNoLookahead(noteTime, currentTime) == noteTime <= currentTime

\* whether updateActiveNotes moves the note to activeNotes
WithinLookahead(noteTime, currentTime) == noteTime <= currentTime + LOOKAHEAD_TIME

\* updateActiveNotes()
UpdateActiveNotes(w) ==
  LET due(id) == WithinLookahead(w.notes[id].time, w.gs.currentTime)
      keep(id) == ~due(id)
  IN [w EXCEPT !.gs.activeNotes = @ \o SelectSeq(w.gs.upcomingNotes, due),
               !.gs.upcomingNotes = SelectSeq(@, keep)]

\* PastMissWindow that no note ever passes
NeverPastMissWindow(note, currentTime) == FALSE

\* PastMissWindow with the window laid ahead of the virtual time
PastMissWindowAhead(note, currentTime) ==
  note.time < currentTime + MISS_WINDOW /\ ~note.judged

\* whether checkMissedNotes takes the note for missed
PastMissWindow(note, currentTime) ==
  note.time < currentTime - MISS_WINDOW /\ ~note.judged

\* the accuracy record of a missed note without its missed mark
MissAccuracyUnmarked ==
  [timeDiff |-> Null, rushing |-> FALSE, dragging |-> FALSE, wrongPad |-> FALSE,
   missed |-> FALSE, judgment |-> "MISS", sequenceMode |-> FALSE]

\* the accuracy record of a missed note
MissAccuracy ==
  [timeDiff |-> Null, rushing |-> FALSE, dragging |-> FALSE, wrongPad |-> FALSE,
   missed |-> TRUE, judgment |-> "MISS", sequenceMode |-> FALSE]

\* the onMiss callback attachGameStateCallbacks installs (no lane is muted)
OnMiss(w, id) == [w EXCEPT !.score = RecordMiss(@)]

\* the filter of checkMissedNotes over the notes rest, kept being those it keeps
RECURSIVE MissSweep(_, _, _)
MissSweep(w, rest, kept) ==
  IF rest = <<>> THEN [w EXCEPT !.gs.activeNotes = kept]
  ELSE LET id == Head(rest) IN
       IF PastMissWindow(w.notes[id], w.gs.currentTime)
       THEN LET w1 == WriteNote(w, id, [w.notes[id] EXCEPT !.judged = TRUE,
                                                            !.accuracy = Some(MissAccuracy)])
                w2 == [w1 EXCEPT !.gs.missedNotes = Append(@, id)]
                w3 == OnMiss(Emit(w2, "miss", id), id)
            IN MissSweep(w3, Tail(rest), kept)
       ELSE MissSweep(w, Tail(rest), Append(kept, id))

\* checkMissedNotes()
CheckMissedNotes(w) == MissSweep(w, w.gs.activeNotes, <<>>)

RECURSIVE Update(_)

\* gameLoop()
GameLoop(w) ==
  LET w1 == Update([w EXCEPT !.ghost.lag = 0]) IN
  IF w1.gs.isPlaying THEN RequestFrame(w1) ELSE w1

\* continueLoop()
ContinueLoop(w) ==
  IF w.gs.isPlaying THEN w
  ELSE GameLoop([w EXCEPT !.gs.startTime = Some(now - w.gs.currentTime),
                          !.gs.isPlaying = TRUE,
                          !.gs.isPaused = FALSE])

\* the notes appendMoreNotesToInfiniteLoop pushes for the loop-th appended loop
AppendedIds(loop) == [i \in 1..NAdded |-> NPattern + loop * NAdded + i]

\* appendMoreNotesToInfiniteLoop pushing the pattern's own note objects again
\* in place of new ones
AppendSameNotes(w) ==
  IF w.ghost.loops >= MaxLoops THEN [w EXCEPT !.ghost.overflow = TRUE]
  ELSE ContinueLoop([w EXCEPT !.gs.upcomingNotes = @ \o [i \in 1..NAdded |-> i],
                              !.pattern.duration = @ + AddedDuration,
                              !.pattern.loopCount = @ + ADDITIONAL_LOOPS,
                              !.ghost.loops = @ + 1])

\* appendMoreNotesToInfiniteLoop leaving out the time offset of the new notes
AppendKeepsDuration(w) ==
  IF w.ghost.loops >= MaxLoops THEN [w EXCEPT !.ghost.overflow = TRUE]
  ELSE LET ids == AppendedIds(w.ghost.loops)
           w1 == [w EXCEPT
                    !.notes = [id \in NoteIds |->
                                 IF InQueue(ids, id)
                                 THEN FreshNote(AddedNotes[id - NPattern - w.ghost.loops * NAdded][1]
                                                + w.pattern.duration)
                                 ELSE @[id]],
                    !.gs.upcomingNotes = @ \o ids,
                    !.pattern.loopCount = @ + ADDITIONAL_LOOPS,
                    !.ghost.loops = @ + 1,
                    !.ghost.sessionNotes = @ \cup {ids[i] : i \in 1..NAdded}]
       IN ContinueLoop(w1)

\* DrumGameEngine.appendMoreNotesToInfiniteLoop(); more than MaxLoops appended
\* loops are outside the model
AppendMoreNotesToInfiniteLoop(w) ==
  IF w.ghost.loops >= MaxLoops THEN [w EXCEPT !.ghost.overflow = TRUE]
  ELSE LET timeOffset == w.pattern.duration
           ids == AppendedIds(w.ghost.loops)
           w1 == [w EXCEPT
                    !.notes = [id \in NoteIds |->
                                 IF InQueue(ids, id)
                                 THEN FreshNote(AddedNotes[id - NPattern - w.ghost.loops * NAdded][1]
                                                + timeOffset)
                                 ELSE @[id]],
                    !.gs.upcomingNotes = @ \o ids,
                    !.pattern.duration = @ + AddedDuration,
                    !.pattern.loopCount = @ + ADDITIONAL_LOOPS,
                    !.ghost.loops = @ + 1,
                    !.ghost.sessionNotes = @ \cup {ids[i] : i \in 1..NAdded}]
       IN ContinueLoop(w1)

\* DrumGameEngine.handlePatternComplete()
HandlePatternComplete(w) ==
  IF w.engine.isInfiniteLoop
  THEN AppendMoreNotesToInfiniteLoop(
         [w EXCEPT !.engine.infiniteLoopIteration = @ + 1])
  ELSE w

\* checkPatternComplete()
CheckPatternComplete(w) ==
  LET allNotesProcessed == w.gs.upcomingNotes = <<>> /\ w.gs.activeNotes = <<>> IN
  IF allNotesProcessed /\ w.gs.isPlaying
  THEN HandlePatternComplete(Emit(Stop(w), "patternComplete", 0))
  ELSE w

\* the onUpdate notification that ends every update(); what the renderer and
\* the metronome do with it is theirs
OnUpdate(w) == Emit(w, "update", 0)

\* the countdown part of update()
UpdateCountdown(w) ==
  IF ~w.gs.isCountingDown THEN w
  ELSE IF w.gs.currentTime < 0
  THEN LET beatsRemaining == CeilDiv(-w.gs.currentTime, BeatDuration) IN
       IF beatsRemaining # w.gs.countdownValue
       THEN Emit([w EXCEPT !.gs.countdownValue = beatsRemaining], "countdown", beatsRemaining)
       ELSE w
  ELSE Emit([w EXCEPT !.gs.isCountingDown = FALSE, !.gs.countdownValue = 0], "countdown", 0)

\* the first unjudged note of activeNotes, if any
FirstUnjudged(w) ==
  LET unjudged(id) == ~w.notes[id].judged
      found == SelectSeq(w.gs.activeNotes, unjudged)
  IN IF found = <<>> THEN Null ELSE Some(Head(found))

\* HeldTime with the virtual time placed after the note
HeldTimeAfterNote(noteTime) == noteTime + SEQUENCE_OFFSET

\* the virtual time held while waiting for the note: just before it
HeldTime(noteTime) == noteTime - SEQUENCE_OFFSET

\* updateSequenceMode(deltaTime)
UpdateSequenceMode(w) ==
  LET w1 == UpdateActiveNotes(w)
      nextNote == FirstUnjudged(w1)
      w2 == IF ~w1.gs.sequenceWaitingForHit /\ w1.gs.activeNotes # <<>> /\ nextNote # Null
            THEN [w1 EXCEPT !.gs.sequenceWaitingForHit = TRUE,
                            !.gs.sequencePausedTime = Some(w1.notes[Val(nextNote)].time),
                            !.gs.currentTime = HeldTime(w1.notes[Val(nextNote)].time)]
            ELSE w1
      w3 == IF w2.gs.sequenceWaitingForHit
            THEN [w2 EXCEPT !.gs.currentTime = HeldTime(Num(w2.gs.sequencePausedTime)),
                            !.gs.startTime = Some(now - HeldTime(Num(w2.gs.sequencePausedTime)))]
            ELSE [w2 EXCEPT !.gs.currentTime = now - Num(w2.gs.startTime)]
  IN OnUpdate(IF w3.gs.sequenceCurrentNoteIndex >= NPattern
              THEN CheckPatternComplete(w3)
              ELSE w3)

\* update(deltaTime)
Update(w) ==
  IF w.gs.sequenceMode THEN UpdateSequenceMode(w)
  ELSE LET w1 == [w EXCEPT !.gs.currentTime = now - Num(w.gs.startTime)]
           w2 == UpdateActiveNotes(UpdateCountdown(w1))
       IN OnUpdate(IF w2.gs.currentTime >= 0
                   THEN CheckPatternComplete(CheckMissedNotes(w2))
                   ELSE w2)

\* a lead-in of one beat
LeadInOneBeat == BeatDuration

\* the lead-in start() computes: COUNTDOWN_BEATS beats
LeadInTime == COUNTDOWN_BEATS * BeatDuration

\* whether start() begins a new lead-in
AtInitialTime(currentTime) == currentTime = 0

\* start()
Start(w) ==
  IF w.gs.isPlaying THEN w
  ELSE LET w1 == IF AtInitialTime(w.gs.currentTime)
                 THEN [w EXCEPT !.gs.currentTime = -LeadInTime, !.gs.isCountingDown = TRUE]
                 ELSE w
       IN GameLoop(Emit([w1 EXCEPT !.gs.startTime = Some(now - w1.gs.currentTime),
                                   !.gs.isPlaying = TRUE,
                                   !.gs.isPaused = FALSE],
                        "start", w1.gs.currentTime))

\* pause()
Pause(w) ==
  IF ~w.gs.isPlaying \/ w.gs.isPaused THEN w
  ELSE LET w1 == [w EXCEPT !.gs.isPlaying = FALSE, !.gs.isPaused = TRUE,
                           !.ghost.pauses = @ + 1]
       IN IF w1.gs.animationFrameId # 0
          THEN [w1 EXCEPT !.raf = CancelFrame(@, w1.gs.animationFrameId),
                          !.gs.animationFrameId = 0]
          ELSE w1

\* resume()
Resume(w) ==
  IF ~w.gs.isPaused THEN w
  ELSE Start([w EXCEPT !.gs.isPaused = FALSE])

\* the copy reset() makes of a pattern note: { ...note, hit: false, judged: false }
ResetCopy(note) == [note EXCEPT !.hit = FALSE, !.judged = FALSE]

\* reset()
Reset(w) ==
  LET w1 == Stop(w) IN
  [w1 EXCEPT
     !.gs.currentTime = 0,
     !.gs.startTime = Null,
     !.gs.isCountingDown = FALSE,
     !.gs.countdownValue = 0,
     !.notes = [id \in NoteIds |-> IF id <= NPattern
                                    THEN ResetCopy(w1.pattern.notes[id])
                                    ELSE FreshNote(0)],
     !.pattern.shared = FALSE,
     !.gs.upcomingNotes = [i \in 1..NPattern |-> i],
     !.gs.activeNotes = <<>>,
     !.gs.hitNotes = <<>>,
     !.gs.missedNotes = <<>>,
     !.gs.wrongPadHits = 0,
     !.gs.sequenceWaitingForHit = FALSE,
     !.gs.sequenceCurrentNoteIndex = 0,
     !.gs.sequenceCorrectHits = 0,
     !.gs.sequenceWrongHits = 0,
     !.gs.sequencePausedTime = Null,
     !.ghost.sessionNotes = 1..NPattern,
     !.ghost.resets = @ + 1]

\* seq without the first occurrence of id (indexOf, then splice)
RemoveFirst(seq, id) ==
  IF ~InQueue(seq, id) THEN seq
  ELSE LET p == CHOOSE i \in 1..Len(seq) :
                  seq[i] = id /\ \A k \in 1..(i - 1) : seq[k] # id
       IN SubSeq(seq, 1, p - 1) \o SubSeq(seq, p + 1, Len(seq))

\* the accuracy record recordHit attaches
HitAccuracy(judgment) ==
  [timeDiff |-> Some(Num(judgment.timeDiff)), rushing |-> judgment.isEarly,
   dragging |-> judgment.isLate, wrongPad |-> ~judgment.isCorrect,
   missed |-> FALSE, judgment |-> judgment.judgment, sequenceMode |-> FALSE]

\* recordHit without the splice that takes the note out of activeNotes
RecordHitKeepsActive(w, id, judgment) ==
  LET w1 == WriteNote(w, id, [w.notes[id] EXCEPT !.judged = TRUE, !.hit = TRUE,
                                                 !.judgment = Some(judgment),
                                                 !.accuracy = Some(HitAccuracy(judgment))])
  IN [w1 EXCEPT !.gs.hitNotes = Append(@, id)]

\* recordHit without the assignment note.judged = true
RecordHitUnjudged(w, id, judgment) ==
  LET w1 == WriteNote(w, id, [w.notes[id] EXCEPT !.hit = TRUE,
                                                 !.judgment = Some(judgment),
                                                 !.accuracy = Some(HitAccuracy(judgment))])
  IN [w1 EXCEPT !.gs.activeNotes = RemoveFirst(@, id),
                !.gs.hitNotes = Append(@, id)]

\* recordHit(note, judgment)
RecordHit(w, id, judgment) ==
  LET w1 == WriteNote(w, id, [w.notes[id] EXCEPT !.judged = TRUE, !.hit = TRUE,
                                                 !.judgment = Some(judgment),
                                                 !.accuracy = Some(HitAccuracy(judgment))])
  IN [w1 EXCEPT !.gs.activeNotes = RemoveFirst(@, id),
                !.gs.hitNotes = Append(@, id)]

\* recordWrongPadHit(midiNote, lane): the log grows by one entry
RecordWrongPadHit(w) == [w EXCEPT !.gs.wrongPadHits = @ + 1]

\* SequenceAccuracy with the tier of a late strike
SequenceAccuracyGood ==
  [timeDiff |-> Some(0), rushing |-> FALSE, dragging |-> FALSE, wrongPad |-> FALSE,
   missed |-> FALSE, judgment |-> "GOOD", sequenceMode |-> TRUE]

\* the accuracy record of a correct sequence-mode strike
SequenceAccuracy ==
  [timeDiff |-> Some(0), rushing |-> FALSE, dragging |-> FALSE, wrongPad |-> FALSE,
   missed |-> FALSE, judgment |-> "PERFECT", sequenceMode |-> TRUE]

\* CountWrongHit releasing the gate as a correct strike does
CountWrongHitReleases(w) ==
  [w EXCEPT !.gs.sequenceWrongHits = @ + 1,
            !.gs.wrongPadHits = @ + 1,
            !.gs.sequenceWaitingForHit = FALSE]

\* the wrong-hit branch of handleSequenceHit: the counter and the feedback log
CountWrongHit(w) ==
  [w EXCEPT !.gs.sequenceWrongHits = @ + 1,
            !.gs.wrongPadHits = @ + 1]

\* handleSequenceHit(midiNote): the world after and the returned result
HandleSequenceHit(w, midiNote) ==
  LET currentNote == FirstUnjudged(w)
      none == [w |-> w, isCorrect |-> FALSE, note |-> Null]
  IN IF ~w.gs.sequenceMode \/ ~w.gs.sequenceWaitingForHit THEN none
     ELSE IF currentNote = Null THEN none
     ELSE LET id == Val(currentNote) IN
          IF MidiNote(id) = midiNote
          THEN LET w1 == WriteNote(w, id, [w.notes[id] EXCEPT !.judged = TRUE, !.hit = TRUE,
                                                             !.accuracy = Some(SequenceAccuracy)])
                   w2 == [w1 EXCEPT !.gs.activeNotes = RemoveFirst(@, id),
                                    !.gs.hitNotes = Append(@, id),
                                    !.gs.sequenceCorrectHits = @ + 1,
                                    !.gs.sequenceCurrentNoteIndex = @ + 1,
                                    !.gs.sequenceWaitingForHit = FALSE]
               IN [w |-> Emit(w2, "sequenceProgress", w2.gs.sequenceCurrentNoteIndex),
                   isCorrect |-> TRUE, note |-> currentNote]
          ELSE LET w1 == CountWrongHit(w)
               IN [w |-> Emit(w1, "sequenceProgress", w1.gs.sequenceCurrentNoteIndex),
                   isCorrect |-> FALSE, note |-> currentNote]

(* ---------------- DrumGameEngine ---------------- *)
\* handleSequenceModeInput(midiNote, noteInfo)
HandleSequenceModeInput(w, midiNote) ==
  LET result == HandleSequenceHit(w, midiNote) IN
  IF result.isCorrect
  THEN [result.w EXCEPT !.score = RecordJudgment(@,
          Judgment("PERFECT", SCORE_PERFECT, Some(0), TRUE, FALSE, FALSE))]
  ELSE result.w

\* the judgment handleMidiInput makes up for a strike that matched no note
NoMatchJudgment == Judgment("WRONG_NOTE", SCORE_WRONG_NOTE, Null, FALSE, FALSE, FALSE)

\* a hit time read from the clock at the strike
StrikeTimeFromClock(w) == now - Num(w.gs.startTime)

\* the hit time handleMidiInput hands to the judge: this.gameState.currentTime
StrikeTime(w) == w.gs.currentTime

\* handleMidiInput(midiNote, velocity, timestamp), no lane muted
HandleMidiInput(w, midiNote) ==
  IF ~w.gs.isPlaying THEN w
  ELSE LET w0 == Emit([w EXCEPT !.ghost.strikes = @ + 1], "strike", midiNote) IN
       IF w0.gs.sequenceMode THEN HandleSequenceModeInput(w0, midiNote)
       ELSE LET found == FindMatchingNote(w0.judge, w0.notes, midiNote,
                                          StrikeTime(w0), w0.gs.activeNotes)
                w1 == [w0 EXCEPT !.judge = found.lastHitTime]
            IN IF found.note # Null
               THEN LET id == Val(found.note)
                        judgment == JudgeHit(w1.notes[id].time, StrikeTime(w1), TRUE)
                    IN RecordHit([w1 EXCEPT !.score = RecordJudgment(@, judgment)],
                                 id, judgment)
               ELSE RecordWrongPadHit(
                      [w1 EXCEPT !.score = RecordJudgment(@, NoMatchJudgment)])

\* DrumGameEngine.start(): reads the loop selector, then starts the game state
EngineStart(w) ==
  Start([w EXCEPT !.engine.isInfiniteLoop = w.engine.loopSelectInfinite,
                  !.engine.infiniteLoopIteration = 0])

(* ---------------- the engine as a state machine ---------------- *)
\* new InputDebouncer(30)
DebouncerInit ==
  [debounceWindowMs |-> DEFAULT_DEBOUNCE_MS,
   lastTriggerTime |-> [c \in Channels |-> Null],
   stats |-> [totalInputs |-> 0, filteredInputs |-> 0]]

\* no call made yet
NoCall ==
  [op |-> "none", noteTime |-> 0, hitTime |-> 0, isCorrectNote |-> FALSE,
   midiNote |-> KICK, result |-> Null, found |-> Null, memoryBefore |-> JudgeReset,
   ns |-> [id \in NoteIds |-> FreshNote(0)], active |-> <<>>]

\* the collaborators the session does not drive, as constructed
\* no averaging asked for
NoAverage ==
  [hitNotes |-> <<>>, missedNotes |-> <<>>, singlePatternDuration |-> 0,
   loopCount |-> 0, called |-> FALSE, result |-> <<>>]

AuxInit ==
  /\ deb = DebouncerInit
  /\ debClock = 0
  /\ debLog = <<>>
  /\ jcall = NoCall
  /\ slog = <<>>
  /\ avg = NoAverage
  /\ grade = Null

\* the engine constructed on the pattern with notes patternNotes over bars
\* bars, its ScoreManager holding sc
GameInitWith(patternNotes, bars, sc) ==
  /\ \E sequenceMode \in BOOLEAN : gs = GameStateInit(sequenceMode)
  /\ notes = [id \in NoteIds |-> IF id <= NPattern THEN FreshNote(patternNotes[id][1])
                                  ELSE FreshNote(0)]
  /\ pattern = [notes |-> [i \in 1..NPattern |-> FreshNote(patternNotes[i][1])],
                duration |-> BarDuration * bars,
                loopCount |-> 1,
                shared |-> TRUE]
  /\ raf = [queue |-> <<>>, frameLeft |-> 0]
  /\ judge = JudgeReset
  /\ score = sc
  /\ \E infinite \in BOOLEAN :
        engine = [loopSelectInfinite |-> infinite, isInfiniteLoop |-> FALSE,
                  infiniteLoopIteration |-> 0]
  /\ now = 0
  /\ events = <<>>
  /\ ghost = [lag |-> 0, loops |-> 0, overflow |-> FALSE, strikes |-> 0, resets |-> 0,
              pauses |-> 0, sessionNotes |-> 1..NPattern]

GameInitOn(patternNotes, bars) == GameInitWith(patternNotes, bars, ScoreInit)

GameInit == GameInitOn(PatternNotes, PatternBars)

Init == GameInit /\ AuxInit

\* a sequence-mode session on the two-bar pattern
InitSequence ==
  /\ GameInitOn(LongPatternNotes, LongPatternBars)
  /\ gs.sequenceMode
  /\ AuxInit

\* the world a handler starts from: nothing emitted yet
Before == [World EXCEPT !.events = <<>>]

\* no callback of a running frame is pending: other tasks may run
Idle == raf.frameLeft = 0

\* wall time passes; it is counted from the first start() of a session
AdvanceTime ==
  /\ Idle
  /\ gs.startTime # Null
  /\ ghost.lag < MaxLag
  /\ \E d \in {TimeStep, StallStep} :
        /\ now + d <= MaxNow
        /\ now' = now + d
  /\ events' = <<>>
  /\ ghost' = [ghost EXCEPT !.lag = @ + 1]
  /\ UNCHANGED <<gs, notes, pattern, raf, judge, score, engine, debVars, jcall, slog, avg, grade>>

\* the next animation frame callback runs: () => this.gameLoop().  A frame
\* runs the callbacks that were scheduled when it began, oldest first, and
\* nothing else runs in between
Tick ==
  /\ raf.queue # <<>>
  /\ LET left == IF Idle THEN Len(raf.queue) ELSE raf.frameLeft
         w == GameLoop([Emit(Before, "frame", 0) EXCEPT !.raf.queue = Tail(@),
                                                          !.raf.frameLeft = left - 1])
     IN /\ ~w.ghost.overflow
        /\ Commit(w)
  /\ UNCHANGED now

\* the game button in phase ready: DrumGameEngine.start()
StartGame ==
  /\ Idle
  /\ LET w == EngineStart(Before) IN
       /\ ~w.ghost.overflow
       /\ Commit(w)
  /\ UNCHANGED now

\* GameState.pause()
PauseGame ==
  /\ Idle
  /\ ghost.pauses < MaxPauses
  /\ Commit(Pause(Before))
  /\ UNCHANGED now

\* GameState.resume()
ResumeGame ==
  /\ Idle
  /\ LET w == Resume(Before) IN
       /\ ~w.ghost.overflow
       /\ Commit(w)
  /\ UNCHANGED now

\* DrumGameEngine.reset() up to the reset of its collaborators
ResetGame ==
  /\ Idle
  /\ ghost.resets < MaxResets
  /\ Commit([Reset(Before) EXCEPT !.score = ScoreInit, !.judge = JudgeReset])
  /\ UNCHANGED now

\* an input on channel midiNote reaches handleMidiInput
Strike ==
  /\ Idle
  /\ ghost.strikes < MaxStrikes
  /\ \E midiNote \in Channels : Commit(HandleMidiInput(Before, midiNote))
  /\ UNCHANGED now

Next ==
  \/ AdvanceTime
  \/ Tick
  \/ ResumeGame
  \/ StartGame
  \/ PauseGame
  \/ ResetGame
  \/ Strike

Spec == Init /\ [][Next]_vars

SpecSequence == InitSequence /\ [][Next]_vars

\* how long the page stays in the background: no animation frame runs while
\* performance.now() goes on
BackgroundStall == 6 * BarDuration

\* an infinite-loop session in time mode
InitStall ==
  /\ GameInit
  /\ ~gs.sequenceMode
  /\ engine.loopSelectInfinite
  /\ AuxInit

\* the page comes back from the background
LongStall ==
  /\ Idle
  /\ gs.startTime # Null
  /\ ghost.lag < MaxLag
  /\ now < BackgroundStall
  /\ now' = now + BackgroundStall
  /\ events' = <<>>
  /\ ghost' = [ghost EXCEPT !.lag = @ + 1]
  /\ UNCHANGED <<gs, notes, pattern, raf, judge, score, engine, debVars, jcall, slog, avg, grade>>

NextStall == Next \/ LongStall

SpecStall == InitStall /\ [][NextStall]_vars

\* a time-mode session on a finite pattern, played through without pause or
\* reset, whose recordHit is also called from outside the engine
InitRecordHit ==
  /\ GameInit
  /\ ~gs.sequenceMode
  /\ ~engine.loopSelectInfinite
  /\ AuxInit

\* GameState.recordHit(note, judgment) called by a client with any note
\* object: one of the session in whatever bucket, or one the session never held
RecordHitCall ==
  /\ Idle
  /\ ghost.strikes < MaxStrikes
  /\ \E id \in NoteIds :
        Commit(RecordHit(Emit([Before EXCEPT !.ghost.strikes = @ + 1], "recordHit", id),
                         id, JudgeHit(notes[id].time, notes[id].time, TRUE)))
  /\ UNCHANGED now

NextRecordHit == AdvanceTime \/ Tick \/ StartGame \/ Strike \/ RecordHitCall

SpecRecordHit == InitRecordHit /\ [][NextRecordHit]_vars

(* ---------------- the note buckets ---------------- *)
Count(seq, id) == Cardinality({i \in 1..Len(seq) : seq[i] = id})

\* how many bucket entries hold the note
Occurrences(g, id) ==
  Count(g.upcomingNotes, id) + Count(g.activeNotes, id)
    + Count(g.hitNotes, id) + Count(g.missedNotes, id)

\* the bucket that holds the note
Bucket(g, id) ==
  IF InQueue(g.upcomingNotes, id) THEN "Upcoming"
  ELSE IF InQueue(g.activeNotes, id) THEN "Active"
  ELSE IF InQueue(g.hitNotes, id) THEN "Hit"
  ELSE IF InQueue(g.missedNotes, id) THEN "Missed"
  ELSE "None"

SameBuckets(g1, g2) ==
  /\ g1.upcomingNotes = g2.upcomingNotes
  /\ g1.activeNotes = g2.activeNotes
  /\ g1.hitNotes = g2.hitNotes
  /\ g1.missedNotes = g2.missedNotes

\* the operation ran update()
Ran(e) == \E i \in 1..Len(e) : e[i][1] = "update"

\* the operation was an animation frame callback
FrameRan(e) == \E i \in 1..Len(e) : e[i][1] = "frame"

\* the operation emitted a countdown, miss or pattern-complete notification
Notified(e) == \E i \in 1..Len(e) : e[i][1] \in {"countdown", "miss", "patternComplete"}

\* C1: after any sequence of start, tick, strike, pause, resume, reset and loop
\* extension, every note of the session is in exactly one of the buckets
\* Upcoming, Active, Hit, Missed, once
ExactlyOneBucket ==
  \A id \in NoteIds :
    Occurrences(gs, id) = IF id \in ghost.sessionNotes THEN 1 ELSE 0

\* a looped session after a hit and a miss, the appended note in play
PartitionWitness ==
  /\ ghost.loops = 1
  /\ gs.hitNotes # <<>>
  /\ gs.missedNotes # <<>>
  /\ gs.activeNotes # <<>>

\* C2: within a session (no reset in between) a judged note stays judged and
\* keeps its accuracy record unchanged, a judged note has a record, and a
\* record is written only by the step that judges the note
JudgedRecordFrozen ==
  [][ghost'.resets = ghost.resets =>
       \A id \in NoteIds :
         /\ notes[id].judged =>
              notes'[id].judged /\ notes'[id].accuracy = notes[id].accuracy
         /\ notes'[id].judged => notes'[id].accuracy # Null
         /\ notes'[id].accuracy # notes[id].accuracy =>
              ~notes[id].judged /\ notes'[id].judged]_vars

\* the first note was hit and the session went on to judge the second missed
JudgedThenPlayedOn ==
  /\ ghost.resets = 0
  /\ notes[1].judged /\ notes[1].hit
  /\ notes[2].judged /\ ~notes[2].hit
  /\ Val(notes[2].accuracy).missed

\* every note of ids is in the same bucket in g1 and g2 or made a move of moves
OnlyMoves(g1, g2, ids, moves) ==
  \A id \in ids :
    Bucket(g1, id) = Bucket(g2, id) \/ <<Bucket(g1, id), Bucket(g2, id)>> \in moves

\* C3: between resets buckets only advance: updateActiveNotes moves notes
\* from Upcoming to Active only, checkMissedNotes from Active to Missed only;
\* a step that ran update() moves notes only along Upcoming, Active, Missed,
\* a strike only from Active to Hit, and no other step moves a note
BucketsOnlyAdvance ==
  [][ghost'.resets = ghost.resets =>
       /\ OnlyMoves(gs, gs', ghost.sessionNotes,
                    IF Ran(events')
                    THEN {<<"Upcoming", "Active">>, <<"Active", "Missed">>,
                          <<"Upcoming", "Missed">>}
                    ELSE IF ghost'.strikes # ghost.strikes
                    THEN {<<"Active", "Hit">>}
                    ELSE {})
       /\ OnlyMoves(gs, UpdateActiveNotes(World).gs, ghost.sessionNotes,
                    {<<"Upcoming", "Active">>})
       /\ OnlyMoves(gs, CheckMissedNotes(World).gs, ghost.sessionNotes,
                    {<<"Active", "Missed">>})]_vars

\* a second session, after a reset, with a note hit, one missed and one active
AdvancedAfterReset ==
  /\ ghost.resets = 1
  /\ gs.hitNotes # <<>>
  /\ gs.missedNotes # <<>>
  /\ gs.activeNotes # <<>>

\* C4: in a playing state, an update() that follows another update() with no
\* wall time in between moves no note and emits no countdown, miss or
\* pattern-complete notification, in time mode and in sequence mode
SecondTickIdle ==
  [][(gs.isPlaying /\ Ran(events) /\ Ran(events') /\ now' = now) =>
       SameBuckets(gs, gs') /\ ~Notified(events')]_vars

\* C5 (time mode): the step that takes a paused session back to playing, its
\* first update() included, leaves the virtual time where pause() left it
\* and begins no lead-in
ResumeKeepsVirtualTime ==
  [][(~gs.sequenceMode /\ gs.isPaused /\ gs'.isPlaying) =>
       /\ gs'.currentTime = gs.currentTime
       /\ gs'.isCountingDown => gs.isCountingDown]_vars

\* C6: while the session stays paused no update() runs: virtual time, the
\* buckets and the notes stay as they are
PausedRunsNoUpdate ==
  [][(gs.isPaused /\ gs'.isPaused) =>
       /\ ~Ran(events')
       /\ gs'.currentTime = gs.currentTime
       /\ SameBuckets(gs, gs')
       /\ notes' = notes]_vars

\* the notes the step moved into hitNotes
NewlyHit(g1, g2) == {id \in NoteIds : InQueue(g2.hitNotes, id) /\ ~InQueue(g1.hitNotes, id)}

MaxLiveNow == LeadInTime + 2 * BarDuration + StallStep * (1 + MaxPauses * MaxLag)

InitLive ==
  /\ GameInit
  /\ ~gs.sequenceMode
  /\ ~engine.loopSelectInfinite
  /\ AuxInit

\* performance.now() moves on
LiveAdvance ==
  /\ Idle
  /\ gs.startTime # Null
  /\ ghost.lag < MaxLag
  /\ \E d \in {TimeStep, StallStep} :
        /\ now + d <= MaxLiveNow
        /\ now' = now + d
  /\ events' = <<>>
  /\ ghost' = [ghost EXCEPT !.lag = @ + 1]
  /\ UNCHANGED <<gs, notes, pattern, raf, judge, score, engine, debVars, jcall, slog, avg, grade>>

\* the session is taken out of its pause
LiveResume ==
  /\ gs.isPaused
  /\ Idle
  /\ \E w \in {Resume(Before)} :
        /\ ~w.ghost.overflow
        /\ Commit(w)
  /\ UNCHANGED now

NextLive == LiveAdvance \/ Tick \/ StartGame \/ PauseGame \/ LiveResume \/ Strike

\* a callback is scheduled: the browser has a frame to run
FrameDue == raf.queue # <<>>

\* the step ran an animation frame callback
FrameStep == FrameRan(events')

\* weak fairness of Tick, written with the state and the notification that
\* tell it: Tick is enabled exactly when a callback is scheduled, and the
\* steps that leave the frame notification are the Tick steps
FairTick == []<>(~FrameDue) \/ []<><<FrameStep>>_vars

\* scheduled animation frames run, the wall clock moves on, and a paused
\* session is resumed
SpecLive ==
  /\ InitLive
  /\ [][NextLive]_vars
  /\ FairTick
  /\ WF_vars(LiveAdvance)
  /\ WF_vars(LiveResume)

(* ---------------- InputDebouncer ---------------- *)
\* inputs logged per run of the debouncer
MaxInputs == 3
\* the last timestamp an input carries
MaxDebClock == 40
\* the timestamps inputs carry
DebTimes == {0, 20, 30, 35, 40}
\* the values handed to setDebounceWindow
DebWindowArgs == {-5, 0, 30}

\* the test with the window's end inside it
WithinDebounceInclusive(timeSinceLastTrigger, debounceWindowMs) ==
  timeSinceLastTrigger <= debounceWindowMs

\* the test that filters a double trigger
WithinDebounce(timeSinceLastTrigger, debounceWindowMs) ==
  timeSinceLastTrigger < debounceWindowMs

\* shouldAllowInput storing the timestamp of a filtered input too
ShouldAllowInputAnchorsAttempt(d, midiNote, timestamp) ==
  LET counted == [d EXCEPT !.stats.totalInputs = @ + 1,
                           !.lastTriggerTime[midiNote] = Some(timestamp)]
      lastTime == d.lastTriggerTime[midiNote]
  IN IF d.debounceWindowMs <= 0 THEN [deb |-> counted, allowed |-> TRUE]
     ELSE IF lastTime # Null /\ timestamp - Val(lastTime) < d.debounceWindowMs
     THEN [deb |-> [counted EXCEPT !.stats.filteredInputs = @ + 1], allowed |-> FALSE]
     ELSE [deb |-> counted, allowed |-> TRUE]

\* shouldAllowInput keeping one timestamp for all channels
ShouldAllowInputOneMemory(d, midiNote, timestamp) ==
  LET counted == [d EXCEPT !.stats.totalInputs = @ + 1]
      lastTime == d.lastTriggerTime[midiNote]
      accepted == [deb |-> [counted EXCEPT !.lastTriggerTime =
                                             [c \in Channels |-> Some(timestamp)]],
                   allowed |-> TRUE]
  IN IF d.debounceWindowMs <= 0 THEN accepted
     ELSE IF lastTime # Null /\ WithinDebounce(timestamp - Val(lastTime), d.debounceWindowMs)
     THEN [deb |-> [counted EXCEPT !.stats.filteredInputs = @ + 1], allowed |-> FALSE]
     ELSE accepted

\* shouldAllowInput(midiNote, timestamp): the debouncer after and the answer
ShouldAllowInput(d, midiNote, timestamp) ==
  LET counted == [d EXCEPT !.stats.totalInputs = @ + 1]
      lastTime == d.lastTriggerTime[midiNote]
      accepted == [deb |-> [counted EXCEPT !.lastTriggerTime[midiNote] = Some(timestamp)],
                   allowed |-> TRUE]
  IN IF d.debounceWindowMs <= 0 THEN accepted
     ELSE IF lastTime # Null /\ WithinDebounce(timestamp - Val(lastTime), d.debounceWindowMs)
     THEN [deb |-> [counted EXCEPT !.stats.filteredInputs = @ + 1], allowed |-> FALSE]
     ELSE accepted

\* setDebounceWindow(ms)
SetDebounceWindow(d, ms) == [d EXCEPT !.debounceWindowMs = Max(0, ms)]

\* InputDebouncer.reset()
DebouncerReset(d) ==
  [d EXCEPT !.lastTriggerTime = [c \in Channels |-> Null],
            !.stats = [totalInputs |-> 0, filteredInputs |-> 0]]

InitDebounce ==
  /\ GameInit
  /\ ~gs.sequenceMode
  /\ ~engine.loopSelectInfinite
  /\ judge = JudgeReset
  /\ AuxInit

\* the clock the timestamps are read from moves on
DebAdvance ==
  /\ \E t \in DebTimes :
        /\ debClock < t
        /\ t <= MaxDebClock
        /\ debClock' = t
  /\ UNCHANGED <<gameVars, judge, jcall, slog, avg, grade, deb, debLog>>

\* an input on channel midiNote, stamped with the clock
DebInput ==
  /\ Len(debLog) < MaxInputs
  /\ \E midiNote \in Channels :
        LET r == ShouldAllowInput(deb, midiNote, debClock) IN
        /\ deb' = r.deb
        /\ debLog' = Append(debLog, [midiNote |-> midiNote, timestamp |-> debClock,
                                      window |-> deb.debounceWindowMs,
                                      allowed |-> r.allowed])
  /\ UNCHANGED <<gameVars, judge, jcall, slog, avg, grade, debClock>>

\* the debounce setting changes
DebSetWindow ==
  /\ \E ms \in DebWindowArgs :
        /\ deb' = SetDebounceWindow(deb, ms)
        /\ deb' # deb
  /\ UNCHANGED <<gameVars, judge, jcall, slog, avg, grade, debClock, debLog>>

\* InputDebouncer.reset()
DebReset ==
  /\ debLog # <<>>
  /\ deb' = DebouncerReset(deb)
  /\ debLog' = <<>>
  /\ UNCHANGED <<gameVars, judge, jcall, slog, avg, grade, debClock>>

NextDebounce == DebAdvance \/ DebInput \/ DebSetWindow \/ DebReset

SpecDebounce == InitDebounce /\ [][NextDebounce]_vars

\* the logged inputs on channel c, oldest first
OnChannel(log, c) ==
  LET on(e) == e.midiNote = c IN SelectSeq(log, on)

\* the timestamp of the last accepted input among the first n of es, if any
RECURSIVE LastAccepted(_, _)
LastAccepted(es, n) ==
  IF n = 0 THEN Null
  ELSE IF es[n].allowed THEN Some(es[n].timestamp)
  ELSE LastAccepted(es, n - 1)

\* C8: on a channel with no accepted input yet the first input is accepted;
\* the second, at a timestamp no earlier, is rejected if it comes less than a
\* positive window after the first and accepted if it comes a window or more
\* after it; with window 0 every input is accepted
DebounceLaw ==
  \A c \in Channels :
    LET es == OnChannel(debLog, c) IN
    /\ Len(es) >= 1 => es[1].allowed
    /\ Len(es) >= 2 =>
         (es[2].allowed <=>
            (es[2].window = 0 \/ es[2].timestamp - es[1].timestamp >= es[2].window))
    /\ \A k \in 1..Len(es) : es[k].window = 0 => es[k].allowed

\* window 30, channel 36: the input at 0 went through, the one at 20 did not
SecondRejected ==
  /\ Len(debLog) = 2
  /\ debLog[1] = [midiNote |-> KICK, timestamp |-> 0, window |-> 30, allowed |-> TRUE]
  /\ debLog[2] = [midiNote |-> KICK, timestamp |-> 20, window |-> 30, allowed |-> FALSE]

\* C9: an input is accepted exactly when its channel has no accepted input
\* yet or it comes a window or more after the most recent accepted one,
\* however many rejected inputs lie in between; the stored timestamp of a
\* channel is that of its most recent accepted input
AnchoredToLastAccepted ==
  \A c \in Channels :
    LET es == OnChannel(debLog, c) IN
    /\ \A k \in 1..Len(es) :
         LET last == LastAccepted(es, k - 1) IN
         es[k].allowed <=>
           (last = Null \/ es[k].timestamp - Val(last) >= es[k].window)
    /\ deb.lastTriggerTime[c] = LastAccepted(es, Len(es))

\* window 30, channel 36: inputs at 0, 20, 40 accepted, rejected, accepted
AcceptedAfterRejected ==
  /\ Len(debLog) = 3
  /\ \A k \in 1..3 : debLog[k].midiNote = KICK /\ debLog[k].window = 30
  /\ <<debLog[1].timestamp, debLog[2].timestamp, debLog[3].timestamp>> = <<0, 20, 40>>
  /\ <<debLog[1].allowed, debLog[2].allowed, debLog[3].allowed>> = <<TRUE, FALSE, TRUE>>
  /\ deb.lastTriggerTime[KICK] = Some(40)

\* a new debouncer fed the first n of the inputs es alone, each under the
\* window it met
RECURSIVE FedAlone(_, _)
FedAlone(es, n) ==
  IF n = 0 THEN DebouncerInit
  ELSE ShouldAllowInput([FedAlone(es, n - 1) EXCEPT !.debounceWindowMs = es[n].window],
                        es[n].midiNote, es[n].timestamp).deb

\* C39: since construction or the last reset(), with timestamps that never
\* decrease: two inputs accepted on one channel under the same positive
\* window, which every input of the channel between them met too, lie at
\* least the window apart; every answer is the one a new debouncer gives that
\* is fed the inputs of that channel alone; totalInputs is the number of
\* calls and filteredInputs the number of rejections; and with no call since
\* reset() both are 0 and no channel has a stored timestamp
DebouncePerChannel ==
  /\ \A c \in Channels :
        LET es == OnChannel(debLog, c) IN
        /\ \A j, k \in 1..Len(es) :
              (/\ j < k
               /\ es[j].allowed /\ es[k].allowed
               /\ es[k].window > 0
               /\ \A i \in j..k : es[i].window = es[k].window) =>
                 es[k].timestamp - es[j].timestamp >= es[k].window
        /\ \A k \in 1..Len(es) :
              es[k].allowed =
                ShouldAllowInput([FedAlone(es, k - 1) EXCEPT !.debounceWindowMs = es[k].window],
                                 c, es[k].timestamp).allowed
        /\ es = <<>> => deb.lastTriggerTime[c] = Null
  /\ \A k \in 1..(Len(debLog) - 1) : debLog[k].timestamp <= debLog[k + 1].timestamp
  /\ deb.stats.totalInputs = Len(debLog)
  /\ deb.stats.filteredInputs = Cardinality({k \in 1..Len(debLog) : ~debLog[k].allowed})

\* window 30: pad 36 at 0 accepted, pad 38 at 20 accepted, pad 36 at 20
\* rejected; three inputs counted, one filtered
OtherChannelBetween ==
  /\ Len(debLog) = 3
  /\ \A k \in 1..3 : debLog[k].window = 30
  /\ <<debLog[1].midiNote, debLog[2].midiNote, debLog[3].midiNote>> = <<KICK, SNARE, KICK>>
  /\ <<debLog[1].timestamp, debLog[2].timestamp, debLog[3].timestamp>> = <<0, 20, 20>>
  /\ <<debLog[1].allowed, debLog[2].allowed, debLog[3].allowed>> = <<TRUE, TRUE, FALSE>>
  /\ deb.stats = [totalInputs |-> 3, filteredInputs |-> 1]

(* ---------------- TimingJudge on its own ---------------- *)
\* the note times judgeHit is called with
JudgeNoteTimes == {0, 1000}
\* the offsets hitTime - noteTime judgeHit is called with
JudgeOffsets ==
  {-201, -200, -151, -150, -101, -100, -80, -51, -50, 0,
   40, 50, 51, 100, 101, 150, 151, 200, 201}
\* the hit times findMatchingNote is called with
JudgeHitTimes == {0, 40, 100, 1200}
\* the active notes findMatchingNote is called with: the pattern's, unjudged
JudgeNotes == [id \in NoteIds |-> IF id <= NPattern THEN FreshNote(PatternNotes[id][1])
                                   ELSE FreshNote(0)]
JudgeActive == [i \in 1..NPattern |-> i]

InitJudge ==
  /\ GameInit
  /\ ~gs.sequenceMode
  /\ ~engine.loopSelectInfinite
  /\ judge = JudgeReset
  /\ AuxInit

\* judgeHit(noteTime, hitTime, isCorrectNote): it returns the judgment and
\* assigns no field of the judge
JudgeHitCall ==
  /\ \E noteTime \in JudgeNoteTimes, d \in JudgeOffsets, isCorrectNote \in BOOLEAN :
        jcall' = [NoCall EXCEPT !.op = "judgeHit",
                                !.noteTime = noteTime,
                                !.hitTime = noteTime + d,
                                !.isCorrectNote = isCorrectNote,
                                !.result = Some(JudgeHit(noteTime, noteTime + d, isCorrectNote)),
                                !.memoryBefore = judge]
  /\ UNCHANGED <<gameVars, judge, debVars, slog, avg, grade>>

\* findMatchingNote(midiNote, hitTime, activeNotes)
FindMatchingNoteCall ==
  /\ \E midiNote \in Channels, hitTime \in JudgeHitTimes :
        LET r == FindMatchingNote(judge, JudgeNotes, midiNote, hitTime, JudgeActive) IN
        /\ judge' = r.lastHitTime
        /\ jcall' = [NoCall EXCEPT !.op = "findMatchingNote",
                                   !.hitTime = hitTime,
                                   !.midiNote = midiNote,
                                   !.found = r.note,
                                   !.memoryBefore = judge,
                                   !.ns = JudgeNotes,
                                   !.active = JudgeActive]
  /\ UNCHANGED <<gameVars, debVars, slog, avg, grade>>

\* the note objects a strike is matched against: the kicks at 800 or 900 (judged
\* or not) and at 1100 or 1250, the snare at 1000
MatchNotes ==
  {[id \in NoteIds |-> IF id = 1 THEN [FreshNote(t1) EXCEPT !.judged = j1]
                        ELSE IF id = 2 THEN FreshNote(1000)
                        ELSE IF id = 3 THEN FreshNote(t3)
                        ELSE FreshNote(0)] :
     t1 \in {800, 900}, t3 \in {1100, 1250}, j1 \in BOOLEAN}
\* activeNotes, in the order the notes were promoted
MatchActive == {<<2>>, <<1, 2, 3>>}
\* the virtual times of the strikes
MatchHitTimes == {1000, 1050}

\* a strike as handleMidiInput passes it through the judge: findMatchingNote,
\* then judgeHit(note.time, hitTime, true) on the note it returned
StrikeCall ==
  /\ \E ns \in MatchNotes, active \in MatchActive, midiNote \in Channels,
         hitTime \in MatchHitTimes :
        LET r == FindMatchingNote(judge, ns, midiNote, hitTime, active) IN
        /\ judge' = r.lastHitTime
        /\ jcall' = [NoCall EXCEPT
                       !.op = "strike",
                       !.hitTime = hitTime,
                       !.midiNote = midiNote,
                       !.found = r.note,
                       !.noteTime = IF r.note = Null THEN 0 ELSE ns[Val(r.note)].time,
                       !.isCorrectNote = r.note # Null,
                       !.result = IF r.note = Null THEN Null
                                  ELSE Some(JudgeHit(ns[Val(r.note)].time, hitTime, TRUE)),
                       !.memoryBefore = judge,
                       !.ns = ns,
                       !.active = active]
  /\ UNCHANGED <<gameVars, debVars, slog, avg, grade>>

\* TimingJudge.reset()
JudgeResetCall ==
  /\ judge # JudgeReset
  /\ judge' = JudgeReset
  /\ jcall' = [NoCall EXCEPT !.op = "reset", !.memoryBefore = judge]
  /\ UNCHANGED <<gameVars, debVars, slog, avg, grade>>

NextJudge == JudgeHitCall \/ FindMatchingNoteCall \/ StrikeCall \/ JudgeResetCall

SpecJudge == InitJudge /\ [][NextJudge]_vars

\* C10: whatever the double-hit memory and the calls made before, judgeHit
\* leaves the memory as it was and answers WRONG_NOTE when isCorrectNote is
\* false; otherwise, with d = hitTime - noteTime, PERFECT if |d| <= 50, GOOD if
\* |d| <= 100, OK if |d| <= 150, with timeDiff = d
JudgeHitIsReference ==
  jcall.op = "judgeHit" =>
    LET d == jcall.hitTime - jcall.noteTime
        r == Val(jcall.result)
    IN /\ judge = jcall.memoryBefore
       /\ ~jcall.isCorrectNote => r.judgment = "WRONG_NOTE" /\ ~r.isCorrect
       /\ jcall.isCorrectNote =>
            /\ r.timeDiff = Some(d)
            /\ Abs(d) <= 50 => r.judgment = "PERFECT"
            /\ (50 < Abs(d) /\ Abs(d) <= 100) => r.judgment = "GOOD"
            /\ (100 < Abs(d) /\ Abs(d) <= 150) => r.judgment = "OK"

\* a judge that remembers hits on both pads judges the note at 1000 hit at 1040
JudgedWithMemory ==
  /\ jcall.op = "judgeHit"
  /\ jcall.isCorrectNote
  /\ jcall.noteTime = 1000
  /\ jcall.hitTime = 1040
  /\ Val(jcall.result).judgment = "PERFECT"
  /\ \A c \in Channels : judge[c] # Null

\* C11: a correct-channel hit whose offset d = hitTime - noteTime has
\* 150 < |d| <= 200 is judged EARLY when d < 0 and LATE when d > 0, each with
\* the base score -10, whether judgeHit is called directly or on the note
\* findMatchingNote returned for the strike
EarlyLateBand ==
  (jcall.op \in {"judgeHit", "strike"} /\ jcall.result # Null /\ jcall.isCorrectNote) =>
    LET d == jcall.hitTime - jcall.noteTime
        r == Val(jcall.result)
    IN (150 < Abs(d) /\ Abs(d) <= 200) =>
         /\ d < 0 => (r.judgment = "EARLY" /\ r.score = -10 /\ r.isEarly /\ ~r.isLate)
         /\ d > 0 => (r.judgment = "LATE" /\ r.score = -10 /\ r.isLate /\ ~r.isEarly)

\* a strike at 1000 matched to the kick at 800 is Late; one at 1050 matched to
\* the kick at 1250 is Early
LateStrikeMatched ==
  /\ jcall.op = "strike"
  /\ jcall.found # Null
  /\ \/ jcall.hitTime - jcall.noteTime = 200 /\ Val(jcall.result).judgment = "LATE"
     \/ jcall.hitTime - jcall.noteTime = -200 /\ Val(jcall.result).judgment = "EARLY"

\* the double-hit guard as the memory before the call decides it: a match on
\* the channel less than 50 ms before the strike
RecentMatch(c) ==
  /\ c.memoryBefore[c.midiNote] # Null
  /\ c.hitTime - Val(c.memoryBefore[c.midiNote]) < 50

\* the positions of activeNotes holding an unjudged note of the strike's
\* channel no further than 200 ms from the strike
Candidates(c) ==
  {i \in 1..Len(c.active) :
     /\ MidiNote(c.active[i]) = c.midiNote
     /\ ~c.ns[c.active[i]].judged
     /\ Abs(c.hitTime - c.ns[c.active[i]].time) <= 200}

\* C12: when no match on the channel lies less than 50 ms back,
\* findMatchingNote returns none if activeNotes holds no unjudged note of the
\* channel within 200 ms of the hit time, and otherwise the first note in
\* activeNotes order among those of smallest absolute offset; it never returns
\* a judged note or a note of another channel
MatchIsNearest ==
  (jcall.op \in {"findMatchingNote", "strike"} /\ ~RecentMatch(jcall)) =>
    LET Off(i) == Abs(jcall.hitTime - jcall.ns[jcall.active[i]].time) IN
    IF Candidates(jcall) = {} THEN jcall.found = Null
    ELSE \E i \in Candidates(jcall) :
           /\ jcall.found = Some(jcall.active[i])
           /\ \A k \in Candidates(jcall) :
                 Off(i) <= Off(k) /\ (Off(k) = Off(i) => i <= k)

\* kicks at 900 and 1100, both unjudged and active: the strike at 1000 is
\* matched to the one at 900, the earlier in activeNotes
TieGoesToEarliest ==
  /\ jcall.op = "strike"
  /\ jcall.midiNote = KICK
  /\ jcall.hitTime = 1000
  /\ jcall.active = <<1, 2, 3>>
  /\ jcall.ns[1].time = 900 /\ ~jcall.ns[1].judged
  /\ jcall.ns[3].time = 1100 /\ ~jcall.ns[3].judged
  /\ jcall.found = Some(1)

\* C13: a findMatchingNote call on a channel less than 50 ms after the
\* virtual time t of a match on that channel returns none and leaves the
\* double-hit memory as it was, for every t
DoubleHitRejected ==
  (jcall.op \in {"findMatchingNote", "strike"} /\ RecentMatch(jcall)) =>
    (jcall.found = Null /\ judge = jcall.memoryBefore)

(* ---------------- the miss sweep and completion ---------------- *)
\* the step moved the note into missedNotes
NewlyMissed(id) == Bucket(gs', id) = "Missed" /\ Bucket(gs, id) # "Missed"

\* the step ran update() at a virtual time >= 0 that lies more than 200 ms
\* past the time of the note, which was neither hit nor missed before
DueForMiss(id) ==
  /\ Ran(events')
  /\ gs'.currentTime >= 0
  /\ Bucket(gs, id) \notin {"Hit", "Missed"}
  /\ id \in ghost.sessionNotes => ~notes[id].judged
  /\ notes'[id].time < gs'.currentTime - 200

\* C19: between resets a step marks a note Missed exactly when it ran update()
\* at a virtual time >= 0 and the note, Active after the promotion of that
\* update and unjudged, has time < virtualTime - 200; the note then carries an
\* accuracy record with missed = true and judgment MISS, one miss notification
\* is emitted for it in that step and none in any other, and a Missed note
\* stays Missed; no note is marked Missed at a negative virtual time
MissedExactlyWhenDue ==
  [][ghost'.resets = ghost.resets =>
       \A id \in ghost'.sessionNotes :
         /\ NewlyMissed(id) <=> DueForMiss(id)
         /\ NewlyMissed(id) =>
              /\ notes'[id].judged
              /\ notes'[id].accuracy # Null
              /\ Val(notes'[id].accuracy).missed
              /\ Val(notes'[id].accuracy).judgment = "MISS"
              /\ gs'.currentTime >= 0
         /\ Count(events', <<"miss", id>>) = (IF NewlyMissed(id) THEN 1 ELSE 0)
         /\ Bucket(gs, id) = "Missed" => Bucket(gs', id) = "Missed"]_vars

\* the snare at 150, never hit, is swept at the tick of virtual time 500, the
\* first past 350, while the kick at 1200 is still to come
SnareMissedAtFirstTickPast ==
  /\ gs.currentTime = 500
  /\ Bucket(gs, 2) = "Missed"
  /\ Count(events, <<"miss", 2>>) = 1
  /\ Val(notes[2].accuracy).missed
  /\ Bucket(gs, 3) = "Active"

\* how many pattern-complete notifications the operation emitted
Completions(e) == Count(e, <<"patternComplete", 0>>)

\* the note is in neither Upcoming nor Active once the update of the step has
\* promoted and swept: it was Hit or Missed before, or the sweep takes it
Processed(id) ==
  \/ Bucket(gs, id) \in {"Hit", "Missed"}
  \/ /\ ~gs.sequenceMode
     /\ ~notes[id].judged
     /\ notes[id].time < gs'.currentTime - 200

\* C20: a step declares the pattern complete only if it ran update() at a
\* virtual time >= 0 with the session playing (an animation frame finds it
\* playing; start and resume set it playing first) and every note of the
\* session is out of Upcoming and Active after the promotion and the miss
\* sweep of that update; such a step emits the notification exactly once
CompleteOncePerTick ==
  [][Completions(events') > 0 =>
       /\ Ran(events')
       /\ FrameRan(events') => gs.isPlaying
       /\ gs'.currentTime >= 0
       /\ \A id \in ghost.sessionNotes : Processed(id)
       /\ Completions(events') = 1]_vars

(* ---------------- sequence mode ---------------- *)
\* the positions of activeNotes that hold an unjudged note
UnjudgedAt(g, ns) == {i \in 1..Len(g.activeNotes) : ~ns[g.activeNotes[i]].judged}

\* the first unjudged note of activeNotes; asked only where there is one
Gated(g, ns) ==
  g.activeNotes[CHOOSE i \in UnjudgedAt(g, ns) : \A k \in UnjudgedAt(g, ns) : i <= k]

\* the session is in sequence mode and waits for a strike
Waiting(g) == g.sequenceMode /\ g.sequenceWaitingForHit

\* the operation handled a strike on channel c
Struck(e, c) == Count(e, <<"strike", c>>) > 0

\* C21: in sequence mode, in every state where the engine waits for a strike,
\* there is a first unjudged Active note, the gate stands at its time, and
\* virtual time is that time minus 50 ms, so at most the time of the gated
\* note, whatever wall time, ticks and wrong strikes went before
GatedTimeHeld ==
  Waiting(gs) =>
    /\ UnjudgedAt(gs, notes) # {}
    /\ gs.sequencePausedTime = Some(notes[Gated(gs, notes)].time)
    /\ gs.currentTime = notes[Gated(gs, notes)].time - 50
    /\ gs.currentTime <= notes[Gated(gs, notes)].time

\* held at 100 before the snare at 150, after a wrong strike, with the wall
\* clock 3000 ms past the start
HeldThroughWrongStrike ==
  /\ Waiting(gs)
  /\ gs.isPlaying
  /\ Gated(gs, notes) = 2
  /\ gs.currentTime = 100
  /\ gs.sequenceWrongHits > 0
  /\ now >= 3000

\* C22: in sequence mode while waiting, a strike on the channel of the gated
\* note moves that note and no other from Active to the end of Hit, sets its
\* judged and hit and gives it the accuracy record PERFECT with timeDiff 0,
\* adds one to the sequence index and to the correct-hit counter, clears the
\* waiting flag and emits one sequence-progress notification; a tick that
\* finds the flag cleared and an unjudged Active note gates on the first one
CorrectStrikeAdvances ==
  [][/\ (/\ Waiting(gs)
         /\ UnjudgedAt(gs, notes) # {}
         /\ Struck(events', MidiNote(Gated(gs, notes)))) =>
          LET id == Gated(gs, notes) IN
          /\ gs'.activeNotes = RemoveFirst(gs.activeNotes, id)
          /\ gs'.hitNotes = Append(gs.hitNotes, id)
          /\ gs'.upcomingNotes = gs.upcomingNotes
          /\ gs'.missedNotes = gs.missedNotes
          /\ notes'[id].judged /\ notes'[id].hit
          /\ notes'[id].accuracy # Null
          /\ Val(notes'[id].accuracy).judgment = "PERFECT"
          /\ Val(notes'[id].accuracy).timeDiff = Some(0)
          /\ \A other \in NoteIds \ {id} : notes'[other] = notes[other]
          /\ gs'.sequenceCurrentNoteIndex = gs.sequenceCurrentNoteIndex + 1
          /\ gs'.sequenceCorrectHits = gs.sequenceCorrectHits + 1
          /\ gs'.sequenceWrongHits = gs.sequenceWrongHits
          /\ ~gs'.sequenceWaitingForHit
          /\ Cardinality({i \in 1..Len(events') : events'[i][1] = "sequenceProgress"}) = 1
     /\ (/\ gs.sequenceMode
         /\ ~gs.sequenceWaitingForHit
         /\ FrameRan(events')
         /\ UnjudgedAt(gs', notes') # {}) =>
          /\ gs'.sequenceWaitingForHit
          /\ gs'.sequencePausedTime = Some(notes'[Gated(gs', notes')].time)]_vars

\* the kick at 0 and then the snare at 150 were struck in turn; the next tick
\* waits on the kick at 3000
GateMovedToThird ==
  /\ Waiting(gs)
  /\ gs.hitNotes = <<1, 2>>
  /\ gs.sequenceCurrentNoteIndex = 2
  /\ gs.sequenceCorrectHits = 2
  /\ Val(notes[2].accuracy).judgment = "PERFECT"
  /\ gs.sequencePausedTime = Some(3000)

\* C23: in sequence mode while waiting, a strike on a channel other than the
\* gated note's adds one to the wrong-attempt counter and one entry to the
\* wrong-pad log and changes no other field of the game state and no note
WrongStrikeOnlyCounts ==
  [][\A c \in Channels :
       (/\ Waiting(gs)
        /\ UnjudgedAt(gs, notes) # {}
        /\ c # MidiNote(Gated(gs, notes))
        /\ Struck(events', c)) =>
         /\ gs' = [gs EXCEPT !.sequenceWrongHits = @ + 1, !.wrongPadHits = @ + 1]
         /\ notes' = notes]_vars

\* two wrong strikes while the first note waits: nothing but the counters moved
TwoWrongStrikes ==
  /\ Waiting(gs)
  /\ gs.sequenceWrongHits = 2
  /\ gs.wrongPadHits = 2
  /\ gs.sequenceCurrentNoteIndex = 0
  /\ gs.hitNotes = <<>>
  /\ gs.currentTime = -50
  /\ Struck(events, SNARE)

RecordHitRejectsInactive ==
  [][\A id \in NoteIds :
       (Count(events', <<"recordHit", id>>) > 0 /\ Bucket(gs, id) # "Active") =>
         /\ \E i \in 1..Len(events') : events'[i][1] = "error"
         /\ SameBuckets(gs, gs')
         /\ notes'[id] = notes[id]]_vars

(* ---------------- reset ---------------- *)
\* C26: after reset() from any state the session is not playing, not paused
\* and not counting down, virtual time is 0, Active, Hit and Missed are empty
\* and Upcoming holds the notes of the original pattern, each at its time,
\* with judged = false, hit = false and no accuracy record or judgment
ResetRestoresPattern ==
  [][ghost'.resets # ghost.resets =>
       /\ ~gs'.isPlaying /\ ~gs'.isPaused /\ ~gs'.isCountingDown
       /\ gs'.currentTime = 0
       /\ gs'.activeNotes = <<>> /\ gs'.hitNotes = <<>> /\ gs'.missedNotes = <<>>
       /\ gs'.upcomingNotes = [i \in 1..NPattern |-> i]
       /\ \A id \in 1..NPattern :
             /\ notes'[id].time = PatternNotes[id][1]
             /\ ~notes'[id].judged /\ ~notes'[id].hit
             /\ notes'[id].accuracy = Null
             /\ notes'[id].judgment = Null]_vars

(* ---------------- configuration setters ---------------- *)
\* C27: setDebounceWindow(ms) with ms < 0 leaves the debounce window at the
\* value it had
NegativeWindowRejected ==
  [][\A ms \in DebWindowArgs :
       (/\ ms < 0
        /\ deb' = SetDebounceWindow(deb, ms)
        /\ debLog' = debLog
        /\ debClock' = debClock) =>
         deb'.debounceWindowMs = deb.debounceWindowMs]_vars

\* the session has been declared complete: stopped, not paused, no note left
\* in Upcoming or Active
Complete(g) ==
  /\ ~g.isPlaying
  /\ ~g.isPaused
  /\ g.upcomingNotes = <<>>
  /\ g.activeNotes = <<>>

\* C30: outside infinite-loop sessions, a step other than reset() taken from
\* a complete session leaves it complete and emits no pattern-complete
\* notification
CompleteUntilReset ==
  [][(Complete(gs) /\ ~engine.loopSelectInfinite /\ ghost'.resets = ghost.resets) =>
       /\ Complete(gs')
       /\ Completions(events') = 0]_vars

(* ---------------- start and the lead-in ---------------- *)
\* the step is a call of start(), from the engine or through resume()
StartCalled == StartGame \/ (ResumeGame /\ gs.isPaused)

\* start() passed its guard and called gameLoop() with this virtual time
StartedAt(e, t) == \E i \in 1..Len(e) : e[i] = <<"start", t>>

\* C31: start() on a playing session changes nothing; otherwise it calls
\* gameLoop() with the session playing, at virtual time minus COUNTDOWN_BEATS
\* beats and counting down if the stored virtual time was 0, at the stored
\* virtual time and with the countdown flag as it was if not; when it returns
\* the wall reference is now minus the virtual time, in time mode the
\* virtual time is the one gameLoop() was called with, and the session is
\* playing unless that first update() declared the pattern complete
StartSetsLeadIn ==
  [][StartCalled =>
       /\ gs.isPlaying =>
            (gs' = gs /\ notes' = notes /\ raf' = raf /\ events' = <<>>)
       /\ ~gs.isPlaying =>
            LET t == IF gs.currentTime = 0
                     THEN -(COUNTDOWN_BEATS * (60000 \div PatternBpm))
                     ELSE gs.currentTime
            IN /\ StartedAt(events', t)
               /\ Ran(events')
               /\ gs.currentTime = 0 => gs'.isCountingDown
               /\ gs.currentTime # 0 => gs'.isCountingDown = gs.isCountingDown
               /\ gs'.startTime = Some(now - gs'.currentTime)
               /\ ~gs.sequenceMode => gs'.currentTime = t
               /\ gs'.isPlaying \/ Completions(events') > 0]_vars

\* a session paused after its lead-in has been started again where it was
StartedAgainMidPattern ==
  /\ ~gs.sequenceMode
  /\ gs.isPlaying
  /\ ghost.pauses > 0
  /\ gs.currentTime > 0
  /\ StartedAt(events, gs.currentTime)

\* the countdown values other than 0 among the notifications
CountdownValues(e) ==
  {e[i][2] : i \in {j \in 1..Len(e) : e[j][1] = "countdown" /\ e[j][2] # 0}}

\* C32: between resets a countdown value is emitted only by an update() that
\* leaves the virtual time negative; it is ceil(-virtualTime / beatDuration),
\* lies in 1 .. COUNTDOWN_BEATS and differs from the last value emitted
\* (countdownValue); it is the first of the session, or smaller than the
\* last one while the countdown of the session is still running; and taking
\* a session paused during its countdown back to playing emits none
CountdownDecreases ==
  [][ghost'.resets = ghost.resets =>
       /\ \A v \in CountdownValues(events') :
             /\ Ran(events')
             /\ gs'.currentTime < 0
             /\ v = CeilDiv(-gs'.currentTime, BeatDuration)
             /\ v \in 1..COUNTDOWN_BEATS
             /\ v # gs.countdownValue
             /\ gs.startTime = Null \/ (gs.countdownValue # 0 /\ v < gs.countdownValue)
       /\ (gs.isPaused /\ gs.isCountingDown /\ gs.currentTime < 0) =>
             CountdownValues(events') = {}]_vars

\* how many countdown-complete notifications (value 0) there are
CountdownCompletes(e) == Count(e, <<"countdown", 0>>)

\* C33: in time mode and in sequence mode, after a step that ran update()
\* a session that is counting down has a negative virtual time; the step
\* emits countdown-complete at most once, and only when it found the session
\* counting down and leaves it, at a virtual time >= 0, no longer counting down
CountdownEndsAtZero ==
  [][Ran(events') =>
       /\ gs'.isCountingDown => gs'.currentTime < 0
       /\ CountdownCompletes(events') <= 1
       /\ CountdownCompletes(events') = 1 =>
            (gs.isCountingDown /\ gs'.currentTime >= 0 /\ ~gs'.isCountingDown)]_vars

(* ---------------- promotion ---------------- *)
\* the notes of seq that are in the set, in the order of seq
Restricted(seq, set) ==
  LET in(id) == id \in set IN SelectSeq(seq, in)

\* C34: after a time-mode step that ran update(), during the lead-in too,
\* every note left in Upcoming lies more than the lookahead after the virtual
\* time, so that every note of the session with time <= virtualTime + 3000
\* has left Upcoming; the notes the step took from Upcoming and left in Active
\* stand in activeNotes after the notes that were there, in the order they
\* had in upcomingNotes
PromotedWithinLookahead ==
  [][(~gs.sequenceMode /\ Ran(events')) =>
       LET moved == {id \in NoteIds : Bucket(gs, id) = "Upcoming" /\ Bucket(gs', id) = "Active"}
           stayed == {id \in NoteIds : Bucket(gs, id) = "Active" /\ Bucket(gs', id) = "Active"}
       IN /\ \A i \in 1..Len(gs'.upcomingNotes) :
                notes'[gs'.upcomingNotes[i]].time > gs'.currentTime + 3000
          /\ \A id \in ghost'.sessionNotes :
                notes'[id].time <= gs'.currentTime + 3000 => Bucket(gs', id) # "Upcoming"
          /\ Restricted(gs'.activeNotes, moved \cup stayed)
               = Restricted(gs.activeNotes, stayed) \o Restricted(gs.upcomingNotes, moved)]_vars

\* a tick during the lead-in promoted the last note of the pattern
PromotedDuringLeadIn ==
  /\ ~gs.sequenceMode
  /\ FrameRan(events)
  /\ gs.currentTime < 0
  /\ gs.isCountingDown
  /\ gs.upcomingNotes = <<>>
  /\ gs.activeNotes = <<1, 2, 3>>

\* C36: at most one game-loop callback is scheduled, and none while the
\* session is not playing (never started, paused, stopped or complete)
OneCallbackScheduled ==
  /\ Len(raf.queue) <= 1
  /\ ~gs.isPlaying => raf.queue = <<>>

\* C37: the buckets agree with the flags of the notes: a note in Upcoming
\* or Active is neither judged nor hit; a note in Hit is judged and hit and
\* has an accuracy record that is not a miss; a note in Missed is judged, not
\* hit, and has an accuracy record marked missed with judgment MISS
BucketsAgreeWithFlags ==
  \A id \in ghost.sessionNotes :
    LET n == notes[id]
        b == Bucket(gs, id)
    IN /\ b \in {"Upcoming", "Active"} => (~n.judged /\ ~n.hit)
       /\ b = "Hit" =>
            (n.judged /\ n.hit /\ n.accuracy # Null /\ ~Val(n.accuracy).missed)
       /\ b = "Missed" =>
            /\ n.judged /\ ~n.hit
            /\ n.accuracy # Null
            /\ Val(n.accuracy).missed
            /\ Val(n.accuracy).judgment = "MISS"

\* a session with a note hit, a note missed and a note still to come
HitMissedAndPending ==
  /\ gs.hitNotes # <<>>
  /\ gs.missedNotes # <<>>
  /\ gs.upcomingNotes \o gs.activeNotes # <<>>

StartedSessionCompletes ==
  (gs.isPlaying \/ gs.isPaused) ~>
    (/\ Completions(events) > 0
     /\ \A id \in ghost.sessionNotes : Bucket(gs, id) \in {"Hit", "Missed"})

\* the pattern is declared complete in a session that was paused, with a
\* note hit and a note missed
CompletedAfterPause ==
  /\ Completions(events) > 0
  /\ ghost.pauses > 0
  /\ gs.hitNotes # <<>>
  /\ gs.missedNotes # <<>>
  /\ gs.upcomingNotes = <<>> /\ gs.activeNotes = <<>>

(* ---------------- ScoreManager on its own ---------------- *)
\* the calls made on the manager after those of the streak it starts with
MaxScoreCalls == 4
\* the lengths of the streak of PERFECT judgments the manager starts with
ScoreStreaks == {0, 13}
\* the judgment objects TimingJudge hands to recordJudgment, one of each tier
ScoreJudgments ==
  {JudgeHit(0, d, TRUE) : d \in {0, 100, 150, -200, 200, 300}} \cup {JudgeHit(0, 0, FALSE)}

\* one call on the manager: the fields before and after it; call counts the
\* calls since the starting streak
ScoreEntry(op, j, before, after, call) ==
  [op |-> op, judgment |-> j, before |-> before, after |-> after, call |-> call]

\* the manager's fields after the calls of log
ScoreAfter(log) == IF log = <<>> THEN ScoreInit ELSE log[Len(log)].after

\* n calls recordJudgment(PERFECT) on a new manager
RECURSIVE StreakLog(_)
StreakLog(n) ==
  IF n = 0 THEN <<>>
  ELSE LET log == StreakLog(n - 1)
           sc == ScoreAfter(log)
       IN Append(log, ScoreEntry("recordJudgment", "PERFECT", sc,
                                 RecordJudgment(sc, JudgeHit(0, 0, TRUE)), 0))

ScoreCalls == IF slog = <<>> THEN 0 ELSE slog[Len(slog)].call

InitScore ==
  \E n \in ScoreStreaks :
    /\ GameInitWith(PatternNotes, PatternBars, ScoreAfter(StreakLog(n)))
    /\ ~gs.sequenceMode
    /\ ~engine.loopSelectInfinite
    /\ deb = DebouncerInit
    /\ debClock = 0
    /\ debLog = <<>>
    /\ jcall = NoCall
    /\ slog = StreakLog(n)
    /\ avg = NoAverage
    /\ grade = Null

\* recordJudgment(judgment)
RecordJudgmentCall ==
  /\ ScoreCalls < MaxScoreCalls
  /\ \E judgment \in ScoreJudgments :
        /\ score' = RecordJudgment(score, judgment)
        /\ slog' = Append(slog, ScoreEntry("recordJudgment", judgment.judgment, score,
                                           score', ScoreCalls + 1))
  /\ UNCHANGED <<gs, notes, pattern, raf, judge, engine, now, events, ghost, debVars, jcall, avg, grade>>

\* recordMiss()
RecordMissCall ==
  /\ ScoreCalls < MaxScoreCalls
  /\ score' = RecordMiss(score)
  /\ slog' = Append(slog, ScoreEntry("recordMiss", "", score, score', ScoreCalls + 1))
  /\ UNCHANGED <<gs, notes, pattern, raf, judge, engine, now, events, ghost, debVars, jcall, avg, grade>>

\* reset()
ScoreResetCall ==
  /\ ScoreCalls < MaxScoreCalls
  /\ score' = ScoreReset(score)
  /\ slog' = Append(slog, ScoreEntry("reset", "", score, score', ScoreCalls + 1))
  /\ UNCHANGED <<gs, notes, pattern, raf, judge, engine, now, events, ghost, debVars, jcall, avg, grade>>

NextScore == RecordJudgmentCall \/ RecordMissCall \/ ScoreResetCall

SpecScore == InitScore /\ [][NextScore]_vars

\* the base score of a tier
BaseScore(j) ==
  CASE j = "PERFECT" -> 100
    [] j = "GOOD" -> 70
    [] j = "OK" -> 40
    [] j = "EARLY" -> -10
    [] j = "LATE" -> -10
    [] j = "MISS" -> 0
    [] OTHER -> -20

\* max(0, floor(base * (1 + c * 0.1))) in exact arithmetic
Awarded(base, c) == Max(0, (base * (10 + c)) \div 10)

\* C14: recordJudgment adds max(0, floor(base * (1 + c * 0.1))) to the
\* cumulative score, c being the combo before the judgment; recordMiss adds
\* nothing; no call but reset() lowers the score; at equal combo a PERFECT
\* adds strictly more than a GOOD
ScoreAddsAwarded ==
  /\ \A k \in 1..Len(slog) :
        LET e == slog[k] IN
        /\ e.op = "recordJudgment" =>
             e.after.totalScore =
               e.before.totalScore + Awarded(BaseScore(e.judgment), e.before.combo)
        /\ e.op = "recordMiss" => e.after.totalScore = e.before.totalScore
        /\ e.op # "reset" => e.after.totalScore >= e.before.totalScore
  /\ \A k, l \in 1..Len(slog) :
        (/\ slog[k].judgment = "PERFECT" /\ slog[l].judgment = "GOOD"
         /\ slog[k].before.combo = slog[l].before.combo) =>
          slog[k].after.totalScore - slog[k].before.totalScore
            > slog[l].after.totalScore - slog[l].before.totalScore

\* the calls of positions k .. k + 3 are three PERFECT judgments and a miss,
\* made on a manager with no combo and no best combo
PerfectsThenMiss(k) ==
  /\ k + 3 <= Len(slog)
  /\ slog[k].before.combo = 0 /\ slog[k].before.maxCombo = 0
  /\ \A i \in k..(k + 2) : slog[i].judgment = "PERFECT"
  /\ slog[k + 3].judgment = "MISS" \/ slog[k + 3].op = "recordMiss"

\* C15: the combo goes up by one on each PERFECT or GOOD and on nothing else;
\* a MISS (recordJudgment or recordMiss), WRONG_NOTE, EARLY or LATE sets it to
\* 0; three PERFECT and then a miss give combo 1, 2, 3, 0 and best combo 3
ComboRule ==
  /\ \A k \in 1..Len(slog) :
        LET e == slog[k] IN
        /\ e.judgment \in {"PERFECT", "GOOD"} => e.after.combo = e.before.combo + 1
        /\ e.after.combo > e.before.combo =>
             (e.op = "recordJudgment" /\ e.judgment \in {"PERFECT", "GOOD"})
        /\ (e.op = "recordMiss" \/ e.judgment \in {"MISS", "WRONG_NOTE", "EARLY", "LATE"})
             => e.after.combo = 0
  /\ \A k \in 1..Len(slog) :
        PerfectsThenMiss(k) =>
          /\ <<slog[k].after.combo, slog[k + 1].after.combo,
               slog[k + 2].after.combo, slog[k + 3].after.combo>> = <<1, 2, 3, 0>>
          /\ slog[k + 3].after.maxCombo = 3

\* a new manager took PERFECT, PERFECT, PERFECT, recordMiss()
ThreePerfectsThenMiss ==
  /\ Len(slog) = 4
  /\ PerfectsThenMiss(1)
  /\ slog[4].op = "recordMiss"
  /\ score.combo = 0
  /\ score.maxCombo = 3

\* C16: an OK judgment leaves the combo as it was, whatever it was
OkKeepsCombo ==
  \A k \in 1..Len(slog) :
    slog[k].judgment = "OK" => slog[k].after.combo = slog[k].before.combo

\* the calls made since construction or the last reset()
RECURSIVE SinceReset(_)
SinceReset(log) ==
  IF log = <<>> THEN <<>>
  ELSE IF log[Len(log)].op = "reset" THEN <<>>
  ELSE Append(SinceReset(SubSeq(log, 1, Len(log) - 1)), log[Len(log)])

\* the largest combo the calls of log left, 0 if none
RECURSIVE LargestCombo(_)
LargestCombo(log) ==
  IF log = <<>> THEN 0
  ELSE Max(log[Len(log)].after.combo, LargestCombo(SubSeq(log, 1, Len(log) - 1)))

\* C17: recordJudgment and recordMiss never lower the best combo; always
\* maxCombo >= combo >= 0; the best combo is the largest combo reached since
\* construction or the last reset()
BestComboIsLargest ==
  /\ \A k \in 1..Len(slog) :
        slog[k].op # "reset" => slog[k].after.maxCombo >= slog[k].before.maxCombo
  /\ score.maxCombo >= score.combo
  /\ score.combo >= 0
  /\ score.maxCombo = LargestCombo(SinceReset(slog))

\* two PERFECT, a miss, one PERFECT on a new manager: the best combo stays 2
BestComboOutlivesMiss ==
  /\ Len(slog) = 4
  /\ slog[3].op = "recordMiss"
  /\ score.combo = 1
  /\ score.maxCombo = 2

\* C18: the accuracy percentage lies in 0 .. 100; once a judgment is
\* recorded it is an integer nearest to 100 * (PERFECT + GOOD + OK) /
\* (all judgments recorded, MISS, EARLY, LATE and WRONG_NOTE included), the
\* counts being those since construction or the last reset()
AccuracyIsHitShare ==
  LET log == SinceReset(slog)
      n == Len(log)
      h == Cardinality({k \in 1..n : log[k].judgment \in {"PERFECT", "GOOD", "OK"}})
      a == GetAccuracy(score)
  IN /\ a \in 0..100
     /\ n > 0 => 2 * Abs(100 * h - n * a) <= n

\* two of three judgments are hits: 67 percent
TwoOfThree ==
  /\ Len(slog) = 3
  /\ score.totalNotes = 3
  /\ score.hitNotes = 2
  /\ score.judgmentCounts["OK"] = 1
  /\ score.judgmentCounts["EARLY"] = 1
  /\ GetAccuracy(score) = 67

(* ---------------- cross-loop averaging on its own ---------------- *)
\* getAllNotesWithAccuracy: [...hitNotes, ...missedNotes] sorted by time;
\* Array.prototype.sort is stable
RECURSIVE SortByTime(_)
SortByTime(seq) ==
  IF seq = <<>> THEN <<>>
  ELSE LET n == Len(seq)
           sorted == SortByTime(SubSeq(seq, 1, n - 1))
           x == seq[n]
           k == Cardinality({i \in 1..Len(sorted) : sorted[i].time <= x.time})
       IN SubSeq(sorted, 1, k) \o <<x>> \o SubSeq(sorted, k + 1, Len(sorted))

GetAllNotesWithAccuracy(hitNotes, missedNotes) == SortByTime(hitNotes \o missedNotes)

\* tolerance for grouping, in ms
GROUP_TOLERANCE == 10

\* the first entry of the Map, in insertion order, whose key lies within the
\* tolerance of the position and whose first note is on the same pad; 0 if none
FoundGroup(noteGroups, positionInPattern, midiNote) ==
  LET hits == {i \in 1..Len(noteGroups) :
                 /\ Abs(noteGroups[i].key - positionInPattern) < GROUP_TOLERANCE
                 /\ noteGroups[i].group[1].midiNote = midiNote}
  IN IF hits = {} THEN 0 ELSE CHOOSE i \in hits : \A j \in hits : i <= j

\* Map.prototype.set: an entry with the same key is replaced where it stands,
\* a new key is added at the end
MapSet(noteGroups, key, group) ==
  LET same == {i \in 1..Len(noteGroups) : noteGroups[i].key = key} IN
  IF same = {} THEN Append(noteGroups, [key |-> key, group |-> group])
  ELSE LET i == CHOOSE i \in same : TRUE
       IN [noteGroups EXCEPT ![i] = [key |-> key, group |-> group]]

\* the body of allNotes.forEach
GroupNote(noteGroups, note, singlePatternDuration) ==
  LET positionInPattern == note.time % singlePatternDuration
      foundGroup == FoundGroup(noteGroups, positionInPattern, note.midiNote)
  IN IF foundGroup # 0
     THEN [noteGroups EXCEPT ![foundGroup].group = Append(@, note)]
     ELSE MapSet(noteGroups, positionInPattern, <<note>>)

RECURSIVE GroupNotes(_, _)
GroupNotes(allNotes, singlePatternDuration) ==
  IF allNotes = <<>> THEN <<>>
  ELSE GroupNote(GroupNotes(SubSeq(allNotes, 1, Len(allNotes) - 1), singlePatternDuration),
                 allNotes[Len(allNotes)], singlePatternDuration)

RECURSIVE SumTimeDiff(_)
SumTimeDiff(group) ==
  IF group = <<>> THEN 0
  ELSE LET n == group[Len(group)] IN
       SumTimeDiff(SubSeq(group, 1, Len(group) - 1))
         + (IF n.accuracy # Null /\ Val(n.accuracy).timeDiff # Null
            THEN Val(Val(n.accuracy).timeDiff) ELSE 0)

\* "Determine overall judgment based on most common outcome": x >= y / 2 is
\* 2 * x >= y, x >= y / 3 is 3 * x >= y
AvgJudgment(c, total) ==
  LET hitCount == total - c.MISS - c.WRONG_NOTE IN
  IF 2 * c.MISS >= total THEN "MISS"
  ELSE IF 2 * c.WRONG_NOTE >= total THEN "WRONG_NOTE"
  ELSE IF 2 * c.PERFECT >= hitCount THEN "PERFECT"
  ELSE IF 3 * c.GOOD >= hitCount THEN "GOOD"
  ELSE IF 3 * c.OK >= hitCount THEN "OK"
  ELSE IF c.EARLY > c.LATE THEN "EARLY"
  ELSE IF c.LATE > c.EARLY THEN "LATE"
  ELSE "OK"

\* the outcome a note is counted under
CountedAs(n) ==
  IF n.accuracy = Null THEN "MISS"
  ELSE IF Val(n.accuracy).missed THEN "MISS"
  ELSE IF Val(n.accuracy).wrongPad THEN "WRONG_NOTE"
  ELSE Val(n.accuracy).judgment

\* one averaged note of a group; the mean offset is kept as the fraction
\* totalTimeDiff / timeDiffCount
AveragedNote(positionInPattern, group) ==
  LET firstNote == group[1]
      total == Len(group)
      c == [o \in {"PERFECT", "GOOD", "OK", "EARLY", "LATE", "MISS", "WRONG_NOTE"} |->
              Cardinality({i \in 1..total : CountedAs(group[i]) = o})]
      timeDiffCount == Cardinality({i \in 1..total :
                         group[i].accuracy # Null /\ Val(group[i].accuracy).timeDiff # Null})
      totalTimeDiff == SumTimeDiff(group)
  IN [time |-> positionInPattern,
      midiNote |-> firstNote.midiNote,
      accuracy |->
        [timeDiff |-> IF timeDiffCount > 0
                      THEN Some([num |-> totalTimeDiff, den |-> timeDiffCount]) ELSE Null,
         rushing |-> c.EARLY > c.LATE,
         dragging |-> c.LATE > c.EARLY,
         wrongPad |-> 2 * c.WRONG_NOTE >= total,
         missed |-> 2 * c.MISS >= total,
         judgment |-> AvgJudgment(c, total),
         loopResults |-> [i \in 1..total |->
                            IF group[i].accuracy = Null THEN "MISS"
                            ELSE Val(group[i].accuracy).judgment]]]

\* getAveragedNotesForVisualization(singlePatternDuration, loopCount)
GetAveragedNotesForVisualization(hitNotes, missedNotes, singlePatternDuration, loopCount) ==
  LET allNotes == GetAllNotesWithAccuracy(hitNotes, missedNotes) IN
  IF loopCount <= 1 THEN allNotes
  ELSE LET noteGroups == GroupNotes(allNotes, singlePatternDuration)
       IN SortByTime([i \in 1..Len(noteGroups) |->
                        AveragedNote(noteGroups[i].key, noteGroups[i].group)])

\* a session of AvgLoops loops of a one-bar pattern with a kick at AvgKickAt
\* and, in some sessions, a snare: each note of each loop was hit with one of
\* the offsets below or missed
AvgLoops == 3
AvgKickAt == 500
AvgSnareAt == {500, 1000}
AvgOutcomes == {"PERFECT", "GOOD", "OK", "EARLY", "LATE", "MISS"}
AvgSnareOutcomes == {"PERFECT", "MISS"}
AvgOffset(o) ==
  CASE o = "PERFECT" -> 10 [] o = "GOOD" -> -60 [] o = "OK" -> 120
    [] o = "EARLY" -> -170 [] o = "LATE" -> 170 [] OTHER -> 0

\* a session note after recordHit or after the miss sweep
JudgedNote(time, midiNote, o) ==
  [time |-> time, midiNote |-> midiNote,
   accuracy |-> IF o = "MISS" THEN Some(MissAccuracy)
                ELSE Some(HitAccuracy(JudgeHit(time, time + AvgOffset(o), TRUE)))]

IsMissed(n) == Val(n.accuracy).missed
IsHit(n) == ~Val(n.accuracy).missed

\* the notes of a session in schedule order
RECURSIVE Played(_, _, _, _)
Played(loops, kick, snareAt, snare) ==
  IF loops = 0 THEN <<>>
  ELSE LET base == (loops - 1) * BarDuration IN
       Played(loops - 1, kick, snareAt, snare)
         \o <<JudgedNote(base + AvgKickAt, KICK, kick[loops])>>
         \o (IF snareAt = 0 THEN <<>>
             ELSE <<JudgedNote(base + snareAt, SNARE, snare)>>)

InitAverage ==
  /\ GameInit
  /\ ~gs.sequenceMode
  /\ ~engine.loopSelectInfinite
  /\ deb = DebouncerInit
  /\ debClock = 0
  /\ debLog = <<>>
  /\ jcall = NoCall
  /\ slog = <<>>
  /\ grade = Null
  /\ \E loopCount \in {1, AvgLoops}, kick \in [1..AvgLoops -> AvgOutcomes],
        snareAt \in {0} \cup AvgSnareAt, snare \in AvgSnareOutcomes :
        LET played == Played(loopCount, kick, snareAt, snare) IN
        /\ \A l \in (loopCount + 1)..AvgLoops : kick[l] = "MISS"
        /\ snareAt = 0 => snare = "MISS"
        /\ avg = [hitNotes |-> SelectSeq(played, IsHit),
                  missedNotes |-> SelectSeq(played, IsMissed),
                  singlePatternDuration |-> BarDuration,
                  loopCount |-> loopCount,
                  called |-> FALSE,
                  result |-> <<>>]

\* the engine asks for the notes to draw
AverageCall ==
  /\ ~avg.called
  /\ avg' = [avg EXCEPT !.called = TRUE,
                        !.result = GetAveragedNotesForVisualization(
                                     avg.hitNotes, avg.missedNotes,
                                     avg.singlePatternDuration, avg.loopCount)]
  /\ UNCHANGED <<gameVars, judge, debVars, jcall, slog, grade>>

NextAverage == AverageCall
SpecAverage == InitAverage /\ [][NextAverage]_vars

\* the judged notes handed to the averaging, and their keys
AvgJudged == avg.hitNotes \o avg.missedNotes
AvgKeys == {<<AvgJudged[i].time % avg.singlePatternDuration, AvgJudged[i].midiNote>> :
              i \in 1..Len(AvgJudged)}
OutcomeCount(seq, o) == Cardinality({i \in 1..Len(seq) : seq[i] = o})
QualityTiers == {"PERFECT", "GOOD", "OK", "EARLY", "LATE"}

\* C28: the averaged record of a group is MISS when at least half of its
\* outcomes are misses; otherwise it is a quality tier that no other quality
\* tier outnumbers among the group's hits; its timeDiff is the sum of the
\* offsets of the hits over their number; PERFECT, GOOD, MISS over three
\* loops gives a quality tier
AveragedTierIsMostCommon ==
  (avg.called /\ avg.loopCount > 1) =>
    \A k \in 1..Len(avg.result) :
      LET a == avg.result[k].accuracy
          r == a.loopResults
          n == Len(r)
          m == OutcomeCount(r, "MISS")
      IN /\ 2 * m >= n => a.judgment = "MISS"
         /\ 2 * m < n =>
              /\ a.judgment \in QualityTiers
              /\ \A t \in QualityTiers : OutcomeCount(r, t) <= OutcomeCount(r, a.judgment)
         /\ n - m > 0 => a.timeDiff # Null /\ Val(a.timeDiff).den = n - m
         /\ r = <<"PERFECT", "GOOD", "MISS">> => a.judgment \in QualityTiers

\* C29: for loopCount > 1 the result has exactly one record for every
\* (position in the loop, pad) of a judged note, and the records together
\* account for every judged note once
EveryJudgedNoteGrouped ==
  (avg.called /\ avg.loopCount > 1) =>
    /\ Len(avg.result) = Cardinality(AvgKeys)
    /\ \A key \in AvgKeys :
          Cardinality({k \in 1..Len(avg.result) :
             avg.result[k].time = key[1] /\ avg.result[k].midiNote = key[2]}) = 1
    /\ \A k \in 1..Len(avg.result) :
          Len(avg.result[k].accuracy.loopResults) =
            Cardinality({i \in 1..Len(AvgJudged) :
               /\ AvgJudged[i].time % avg.singlePatternDuration = avg.result[k].time
               /\ AvgJudged[i].midiNote = avg.result[k].midiNote})

(* ---------------- grades ---------------- *)
\* the most judgments a graded session has
MaxGraded == 20

\* a ScoreManager after hit PERFECT judgments and then missed misses
RECURSIVE Tally(_, _)
Tally(hit, missed) ==
  IF missed > 0 THEN RecordMiss(Tally(hit, missed - 1))
  ELSE IF hit > 0 THEN RecordJudgment(Tally(hit - 1, 0), JudgeHit(0, 0, TRUE))
  ELSE ScoreInit

InitGrade ==
  /\ \E total \in 0..MaxGraded, hit \in 0..MaxGraded :
        /\ hit <= total
        /\ GameInitWith(PatternNotes, PatternBars, Tally(hit, total - hit))
  /\ ~gs.sequenceMode
  /\ ~engine.loopSelectInfinite
  /\ deb = DebouncerInit
  /\ debClock = 0
  /\ debLog = <<>>
  /\ jcall = NoCall
  /\ slog = <<>>
  /\ avg = NoAverage
  /\ grade = Null

\* getGrade() is asked for the summary
GradeCall ==
  /\ grade = Null
  /\ grade' = Some(GetGrade(score))
  /\ UNCHANGED <<gameVars, judge, debVars, jcall, slog, avg>>

NextGrade == GradeCall
SpecGrade == InitGrade /\ [][NextGrade]_vars

\* the place of a letter in the order F < D < C < B < A < S
GradeRank(g) ==
  CASE g = "F" -> 0 [] g = "D" -> 1 [] g = "C" -> 2 [] g = "B" -> 3
    [] g = "A" -> 4 [] g = "S" -> 5

\* the letters getGrade gives over the accuracies 0 .. 100
GradesGiven == {GradeOf(a) : a \in 0..100}

\* the answer is the letter of the manager's accuracy, no lower accuracy has
\* a higher letter and no higher accuracy a lower one
GradeIsMonotone ==
  LET a == GetAccuracy(score)
      g == Val(grade)
  IN /\ a \in 0..100
     /\ g = GradeOf(a)
     /\ \A b \in 0..100 :
          /\ b <= a => GradeRank(GradeOf(b)) <= GradeRank(g)
          /\ b >= a => GradeRank(GradeOf(b)) >= GradeRank(g)

\* C35 as stated: the grade is monotone in the accuracy and takes exactly five
\* values over 0 .. 100
GradeHasFiveValues ==
  grade # Null => (GradeIsMonotone /\ Cardinality(GradesGiven) = 5)

\* C35: the grade is monotone in the accuracy and takes exactly six values
\* over 0 .. 100: S, A, B, C, D, F
GradeHasSixValues ==
  grade # Null =>
    /\ GradeIsMonotone
    /\ GradesGiven = {"S", "A", "B", "C", "D", "F"}
    /\ Cardinality(GradesGiven) = 6

\* 19 of 20 judgments hit: 95 percent, the lowest accuracy graded S
GradedS ==
  /\ grade = Some("S")
  /\ score.totalNotes = 20
  /\ score.hitNotes = 19

====
